---------------------------- MODULE Spec2Model ----------------------------
(***************************************************************************)
(* A model of jp_segment: the tokenizer that splices anchored words into   *)
(* the input (parser_port.py), the rule-driven deconjugator                *)
(* (deconjugator.py) and the lexicon helpers (jmdict_loader.py).           *)
(*                                                                         *)
(* A Python str is modelled as a sequence of characters.  Characters are   *)
(* one-letter strings where only equality matters, and code points         *)
(* (integers) where the code does arithmetic on ord(ch).                   *)
(***************************************************************************)
EXTENDS Integers, Sequences, FiniteSets, TLC

VARIABLES
    \* ParserPort.parse_text_tokens / _words_with_positions
    text,        \* the input text
    processed,   \* list[DeckWord]: the original_text of every anchored word
    tpc,         \* position in parse_text_tokens
    widx,        \* loop index of `for w in processed`
    wcurrent,    \* `current` of _words_with_positions
    out,         \* `out` of _words_with_positions: <<word, pos>> pairs
    eidx,        \* loop index of `for dw, pos in ...`
    current,     \* `current` of parse_text_tokens
    tokens,      \* `tokens` of parse_text_tokens
    starts,      \* for each token, the offset in text it was emitted for
    \* Deconjugator.deconjugate
    dtext,       \* the `text` argument of deconjugate
    rules,       \* self.rules, the rule table
    dprocessed,  \* `processed` of deconjugate
    novel,       \* `novel`, the current frontier
    dpc,         \* position in deconjugate
    round,       \* number of completed iterations of `while novel`
    \* JmWord, as load_jmdict fills it and get_priority_score reads it
    priorities,       \* JmWord.priorities
    prev_priorities,  \* JmWord.priorities before the last token was ingested
    parts_of_speech,  \* JmWord.parts_of_speech
    is_kana,          \* the is_kana argument of get_priority_score
    \* the folding functions of jmdict_loader.py
    fhist,       \* the input string, then the result of every application
    fops,        \* the functions applied, in order
    \* the decoders of _types.py
    pos_in,      \* the `pos` argument
    pos_fn,      \* the decoder called, "none" before the call
    pos_out,     \* the value returned
    \* load_jmdict
    jm_words,    \* `words`: word id -> JmWord
    jm_ids,      \* the keys of `words` in insertion order
    lookups,     \* `lookups`: key -> list of word ids
    lpc,         \* position in load_jmdict
    nrows,       \* number of term-bank rows read
    bidx,        \* position in `for word_id, w in words.items()`
    todo_spellings,  \* the spellings of the current word not yet visited
    todo_readings,   \* the readings of the current word not yet visited
    \* ParserPort._process_word
    w_in,        \* the WordInfo argument `w`
    cur_w,       \* `cur`, the working copy of the morpheme
    original_surface,  \* `original_surface`
    attempts,    \* `attempts`
    tries,       \* number of calls of try_process
    fallback,    \* the fallback applied by the last iteration
    applied,     \* every fallback applied so far: its kind, cur.text before and after
    apc,         \* position in _process_word
    ret,         \* the value returned
    run,         \* which run of _process_word on w this is
    first_ret,   \* the value the first run returned
    \* apply_pipeline
    word_infos,      \* the `word_infos` argument: a list of references
    morphemes_only,  \* the `morphemes_only` argument
    combos,          \* the set load_amount_combinations() returns
    heap,            \* the WordInfo objects: reference -> fields
    pw,              \* `w` of apply_pipeline: a list of references
    passes,          \* the passes called so far: name, argument, result
    in_heap,         \* the heap when the last pass was called
    ppc,             \* position in apply_pipeline
    pipe_ret         \* the list returned

tokVars == <<text, processed, tpc, widx, wcurrent, out, eidx, current, tokens, starts>>

decVars == <<dtext, rules, dprocessed, novel, dpc, round>>

prioVars == <<priorities, prev_priorities, parts_of_speech, is_kana>>

foldVars == <<fhist, fops>>

posVars == <<pos_in, pos_fn, pos_out>>

loadVars == <<jm_words, jm_ids, lookups, lpc, nrows, bidx, todo_spellings, todo_readings>>

anchorVars == <<w_in, cur_w, original_surface, attempts, tries, fallback, applied, apc, ret,
               run, first_ret>>

pipeVars == <<word_infos, morphemes_only, combos, heap, pw, passes, in_heap, ppc, pipe_ret>>

vars == <<tokVars, decVars, prioVars, foldVars, posVars, loadVars, anchorVars, pipeVars>>

\* for each component, the variables of the others
tokOthers == <<decVars, prioVars, foldVars, posVars, loadVars, anchorVars, pipeVars>>

decOthers == <<tokVars, prioVars, foldVars, posVars, loadVars, anchorVars, pipeVars>>

prioOthers == <<tokVars, decVars, foldVars, posVars, loadVars, anchorVars, pipeVars>>

foldOthers == <<tokVars, decVars, prioVars, posVars, loadVars, anchorVars, pipeVars>>

posOthers == <<tokVars, decVars, prioVars, foldVars, loadVars, anchorVars, pipeVars>>

loadOthers == <<tokVars, decVars, prioVars, foldVars, posVars, anchorVars, pipeVars>>

anchorOthers == <<tokVars, decVars, prioVars, foldVars, posVars, loadVars, pipeVars>>

pipeOthers == <<tokVars, decVars, prioVars, foldVars, posVars, loadVars, anchorVars>>

-----------------------------------------------------------------------------
(* Bounds of the model *)

MaxTextLen == 3
MaxWordLen == 2
MaxWords == 2
MaxDecTextLen == 2
MaxRules == 2
MaxRounds == 14
MaxPriorities == 3
MaxFoldLen == 2
MaxFoldOps == 2

\* term-bank rows read by one load
MaxRows == 3

\* length of the surface of a morpheme
MaxAnchorLen == 3

\* the longest list of morphemes apply_pipeline is called on
MaxMorphemes == 3


-----------------------------------------------------------------------------
(* Python str operations on sequences *)

\* All sequences over S of length at most n.
SeqsUpTo(S, n) == UNION {[1..k -> S] : k \in 0..n}

\* s[i:j] for 0 <= i, with j clipped to len(s)
Slice(s, i, j) == SubSeq(s, i + 1, IF j > Len(s) THEN Len(s) ELSE j)

\* s.startswith(p) at offset i (0-based): s[i:i+len(p)] == p
MatchAt(s, p, i) ==
    /\ i + Len(p) <= Len(s)
    /\ \A k \in 1..Len(p) : s[i + k] = p[k]

\* s.endswith(p)
EndsWith(s, p) == Len(p) <= Len(s) /\ MatchAt(s, p, Len(s) - Len(p))

\* s.startswith(p)
StartsWith(s, p) == MatchAt(s, p, 0)

\* p in s
Contains(s, p) == \E i \in 0..Len(s) : MatchAt(s, p, i)

\* s.find(sub, start): the lowest index >= start where sub occurs, else -1
Find(s, sub, start) ==
    LET hits == {i \in start..Len(s) : MatchAt(s, sub, i)}
    IN  IF hits = {} THEN -1
        ELSE CHOOSE i \in hits : \A j \in hits : i <= j

\* "".join(list)
RECURSIVE Join(_)
Join(ss) == IF ss = <<>> THEN <<>> ELSE Head(ss) \o Join(Tail(ss))

-----------------------------------------------------------------------------
(* Tokenizer: ParserPort.parse_text_tokens, step 4 *)

TokAlphabet == {"a", "b"}

Texts == SeqsUpTo(TokAlphabet, MaxTextLen)

\* original_text of a DeckWord: the surface of a cleaned morpheme, which
\* parse_text_tokens keeps only when it is non-empty (parser_port.py:98-104)
Surfaces == SeqsUpTo(TokAlphabet, MaxWordLen) \ {<<>>}

\* the tokenizer before any call
TokIdle ==
    /\ text = <<>>
    /\ processed = <<>>
    /\ tpc = "idle"
    /\ widx = 1
    /\ wcurrent = 0
    /\ out = <<>>
    /\ eidx = 1
    /\ current = 0
    /\ tokens = <<>>
    /\ starts = <<>>

TokInit ==
    /\ text \in Texts
    /\ processed \in SeqsUpTo(Surfaces, MaxWords)
    /\ tpc = "locate"
    /\ widx = 1
    /\ wcurrent = 0
    /\ out = <<>>
    /\ eidx = 1
    /\ current = 0
    /\ tokens = <<>>
    /\ starts = <<>>

\* WordsWithPositionsStep with every search started at the beginning of
\* the text instead of the cursor
WordsWithPositionsStep_FromStart(o, cur, w, t) ==
    LET pos == Find(t, w, 0)
    IN  IF pos >= 0
        THEN [out |-> Append(o, <<w, pos>>), current |-> pos + Len(w)]
        ELSE [out |-> o, current |-> cur]

\* WordsWithPositionsStep with the cursor moved one character past the hit
\* instead of past the whole word
WordsWithPositionsStep_ShortAdvance(o, cur, w, t) ==
    LET pos == Find(t, w, cur)
    IN  IF pos >= 0
        THEN [out |-> Append(o, <<w, pos>>), current |-> pos + 1]
        ELSE [out |-> o, current |-> cur]

\* WordsWithPositionsStep with a miss moving the cursor to the end of text
WordsWithPositionsStep_MissAdvances(o, cur, w, t) ==
    LET pos == Find(t, w, cur)
    IN  IF pos >= 0
        THEN [out |-> Append(o, <<w, pos>>), current |-> pos + Len(w)]
        ELSE [out |-> o, current |-> Len(t)]

\* the body of `for w in processed` in _words_with_positions: the word is
\* searched from the cursor; a hit is recorded and moves the cursor past it
WordsWithPositionsStep(o, cur, w, t) ==
    LET pos == Find(t, w, cur)
    IN  IF pos >= 0
        THEN [out |-> Append(o, <<w, pos>>), current |-> pos + Len(w)]
        ELSE [out |-> o, current |-> cur]

\* one iteration of `for w in processed` in _words_with_positions
Locate ==
    /\ tpc = "locate"
    /\ widx <= Len(processed)
    /\ LET r == WordsWithPositionsStep(out, wcurrent, processed[widx], text)
       IN  /\ out' = r.out
           /\ wcurrent' = r.current
    /\ widx' = widx + 1
    /\ UNCHANGED <<text, processed, tpc, eidx, current, tokens, starts, tokOthers>>

\* _words_with_positions returns `out`
LocateReturn ==
    /\ tpc = "locate"
    /\ widx > Len(processed)
    /\ tpc' = "emit"
    /\ UNCHANGED <<text, processed, widx, wcurrent, out, eidx, current, tokens, starts, tokOthers>>

\* one iteration of `for dw, pos in self._words_with_positions(...)`
Emit ==
    /\ tpc = "emit"
    /\ eidx <= Len(out)
    /\ LET dw == out[eidx][1]
           pos == out[eidx][2]
           gap == IF pos > current THEN <<Slice(text, current, pos)>> ELSE <<>>
           gapAt == IF pos > current THEN <<current>> ELSE <<>>
       IN  /\ tokens' = (tokens \o gap) \o <<dw>>
           /\ starts' = (starts \o gapAt) \o <<pos>>
           /\ current' = pos + Len(dw)
    /\ eidx' = eidx + 1
    /\ UNCHANGED <<text, processed, tpc, widx, wcurrent, out, tokOthers>>

\* TailGap with `<=` for `<`
TailGap_Inclusive(t, cur) == IF cur <= Len(t) THEN <<Slice(t, cur, Len(t))>> ELSE <<>>

\* `if current < len(text): tokens.append(text[current:])`
TailGap(t, cur) == IF cur < Len(t) THEN <<Slice(t, cur, Len(t))>> ELSE <<>>

\* the trailing gap, then `return tokens`
EmitTail ==
    /\ tpc = "emit"
    /\ eidx > Len(out)
    /\ tokens' = tokens \o TailGap(text, current)
    /\ starts' = starts \o [k \in 1..Len(TailGap(text, current)) |-> current]
    /\ tpc' = "done"
    /\ UNCHANGED <<text, processed, widx, wcurrent, out, eidx, current, tokOthers>>

TokNext == Locate \/ LocateReturn \/ Emit \/ EmitTail

-----------------------------------------------------------------------------
(* Deconjugator (deconjugator.py) *)

\* Python None, for an absent con_tag / dec_tag; no tag of a rule equals it
None == "<None>"

\* str.replace(old, new) for old = "": new goes before every character and
\* at the end
RECURSIVE ReplaceEmpty(_, _)
ReplaceEmpty(s, new) ==
    IF s = <<>> THEN new ELSE (new \o <<Head(s)>>) \o ReplaceEmpty(Tail(s), new)

\* str.replace(old, new): every non-overlapping occurrence, left to right
RECURSIVE ReplaceFrom(_, _, _)
ReplaceFrom(s, old, new) ==
    IF Len(s) < Len(old) THEN s
    ELSE IF MatchAt(s, old, 0)
         THEN new \o ReplaceFrom(SubSeq(s, Len(old) + 1, Len(s)), old, new)
         ELSE <<Head(s)>> \o ReplaceFrom(Tail(s), old, new)

Replace(s, old, new) ==
    IF old = <<>> THEN ReplaceEmpty(s, new) ELSE ReplaceFrom(s, old, new)

\* DeconjugationForm
Form(t, orig, tags, seen, process) ==
    [text |-> t, original_text |-> orig, tags |-> tags, seen_text |-> seen,
     process |-> process]

\* the form deconjugate starts from
InitialForm(t) == Form(t, t, <<>>, {}, <<>>)

\* Rule; dec_tag / con_tag are <<>> when the JSON object has no such key
Rule(type, ctx, dec_end, con_end, dec_tag, con_tag, detail) ==
    [type |-> type, context_rule |-> ctx, dec_end |-> dec_end, con_end |-> con_end,
     dec_tag |-> dec_tag, con_tag |-> con_tag, detail |-> detail]

\* Deconjugator._skip
Skip(form) ==
    \/ form.text = <<>>
    \/ Len(form.text) > Len(form.original_text) + 10
    \/ Len(form.tags) > Len(form.original_text) + 6

\* _create_new_form appending con_tag whatever tags the form has
CreateNewForm_AlwaysConTag(form, new_text, con_tag, dec_tag, detail) ==
    LET tags1 == IF con_tag # None THEN Append(form.tags, con_tag) ELSE form.tags
        tags2 == IF dec_tag # None THEN Append(tags1, dec_tag) ELSE tags1
        seen  == (IF form.seen_text = {} THEN {form.text} ELSE form.seen_text)
                     \cup {new_text}
    IN  Form(new_text, form.original_text, tags2, seen, Append(form.process, detail))

\* Deconjugator._create_new_form
CreateNewForm(form, new_text, con_tag, dec_tag, detail) ==
    LET tags1 == IF form.tags = <<>> /\ con_tag # None
                 THEN Append(form.tags, con_tag) ELSE form.tags
        tags2 == IF dec_tag # None THEN Append(tags1, dec_tag) ELSE tags1
        seen  == (IF form.seen_text = {} THEN {form.text} ELSE form.seen_text)
                     \cup {new_text}
    IN  Form(new_text, form.original_text, tags2, seen, Append(form.process, detail))

\* Deconjugator._create_substitution_form
CreateSubstitutionForm(form, new_text, detail) ==
    LET seen == (IF form.seen_text = {} THEN {form.text} ELSE form.seen_text)
                    \cup {new_text}
    IN  Form(new_text, form.original_text, form.tags, seen, Append(form.process, detail))

\* try_one of _std_rule: the set holding the new form, or nothing
TryOne(form, detail, dec_end, con_end, dec_tag, con_tag) ==
    IF ~EndsWith(form.text, con_end) THEN {}
    ELSE IF form.tags # <<>> /\ form.tags[Len(form.tags)] # con_tag THEN {}
    ELSE LET prefix == SubSeq(form.text, 1, Len(form.text) - Len(con_end))
             new_text == prefix \o dec_end
         IN  IF new_text = form.original_text THEN {}
             ELSE {CreateNewForm(form, new_text, con_tag, dec_tag, detail)}

\* lst[i] if i < len(lst) else lst[0]   (i is 0-based)
ElemOrFirst(lst, i) == IF i < Len(lst) THEN lst[i + 1] ELSE lst[1]

\* TagOrFirst falling back to the last element instead of the first
TagOrFirst_Last(lst, i) ==
    IF lst # <<>> /\ i < Len(lst) THEN lst[i + 1]
    ELSE IF lst # <<>> THEN lst[Len(lst)] ELSE None

\* lst[i] if (lst and i < len(lst)) else (lst[0] if lst else None)
TagOrFirst(lst, i) ==
    IF lst # <<>> /\ i < Len(lst) THEN lst[i + 1]
    ELSE IF lst # <<>> THEN lst[1] ELSE None

\* Deconjugator._std_rule; None and the empty set are both {}
StdRule(form, rule) ==
    IF rule.detail = "" /\ Len(form.tags) = 0 THEN {}
    ELSE IF Len(rule.dec_end) = 1
         THEN TryOne(form, rule.detail, rule.dec_end[1], rule.con_end[1],
                     IF rule.dec_tag # <<>> THEN rule.dec_tag[1] ELSE None,
                     IF rule.con_tag # <<>> THEN rule.con_tag[1] ELSE None)
         ELSE UNION {TryOne(form, rule.detail,
                            ElemOrFirst(rule.dec_end, i), ElemOrFirst(rule.con_end, i),
                            TagOrFirst(rule.dec_tag, i), TagOrFirst(rule.con_tag, i))
                     : i \in 0..(Len(rule.dec_end) - 1)}

\* _substitution without its refusal of forms that have a process trace
Substitution_AnyProcess(form, rule) ==
    IF form.text = <<>> THEN {}
    ELSE UNION {IF ~Contains(form.text, ElemOrFirst(rule.con_end, i)) THEN {}
                ELSE {CreateSubstitutionForm(form,
                          Replace(form.text, ElemOrFirst(rule.con_end, i),
                                  ElemOrFirst(rule.dec_end, i)),
                          rule.detail)}
                : i \in 0..(Len(rule.dec_end) - 1)}

\* apply of _substitution
SubstApply(form, detail, con_end, dec_end) ==
    IF ~Contains(form.text, con_end) THEN {}
    ELSE {CreateSubstitutionForm(form, Replace(form.text, con_end, dec_end), detail)}

\* Deconjugator._substitution
Substitution(form, rule) ==
    IF form.process # <<>> \/ form.text = <<>> THEN {}
    ELSE IF Len(rule.dec_end) = 1
         THEN SubstApply(form, rule.detail, rule.con_end[1], rule.dec_end[1])
         ELSE UNION {SubstApply(form, rule.detail,
                                ElemOrFirst(rule.con_end, i), ElemOrFirst(rule.dec_end, i))
                     : i \in 0..(Len(rule.dec_end) - 1)}

\* Deconjugator._rewrite_rule
RewriteRule(form, rule) ==
    IF form.text = rule.con_end[1] THEN StdRule(form, rule) ELSE {}

\* Deconjugator._only_final_rule
OnlyFinalRule(form, rule) ==
    IF form.tags = <<>> THEN StdRule(form, rule) ELSE {}

\* Deconjugator._neverfinal_rule
NeverFinalRule(form, rule) ==
    IF form.tags # <<>> THEN StdRule(form, rule) ELSE {}

\* the string literal of deconjugator.py:188, two characters long
SaContextLiteral == <<"U+00E3", "U+2022">>

\* Deconjugator._context_rule
ContextRule(form, rule) ==
    IF rule.context_rule = "v1inftrap" /\ form.tags = <<"stem-ren">> THEN {}
    ELSE IF rule.context_rule = "saspecial"
         THEN IF rule.con_end = <<>> THEN {}
              ELSE LET con_end == rule.con_end[1]
                       prefix_len == Len(form.text) - Len(con_end)
                   IN  IF ~EndsWith(form.text, con_end) THEN {}
                       ELSE IF prefix_len > 0
                               /\ Slice(form.text, prefix_len - 1, prefix_len)
                                      = SaContextLiteral
                            THEN {}
                            ELSE StdRule(form, rule)
         ELSE StdRule(form, rule)

\* Deconjugator._apply_rule
ApplyRule(form, rule) ==
    CASE rule.type = "stdrule"        -> StdRule(form, rule)
      [] rule.type = "rewriterule"    -> RewriteRule(form, rule)
      [] rule.type = "onlyfinalrule"  -> OnlyFinalRule(form, rule)
      [] rule.type = "neverfinalrule" -> NeverFinalRule(form, rule)
      [] rule.type = "contextrule"    -> ContextRule(form, rule)
      [] rule.type = "substitution"   -> Substitution(form, rule)
      [] OTHER                        -> {}

\* the forms one iteration of `while novel` puts into new_novel
NewNovel(nov, proc, rs) ==
    {f \in UNION {ApplyRule(form, rs[k]) : form \in {g \in nov : ~Skip(g)},
                                          k \in 1..Len(rs)}
        : f \notin proc /\ f \notin nov}

\* The rules the tables of the model are drawn from, in file order.  Texts
\* are over a, b, c; tags are T, U, V and stem-ren.
RuleFile == <<
    \* 1: a plain standard rule
    Rule("stdrule", None, << <<"b">> >>, << <<"a">> >>, <<"U">>, <<"T">>, "past"),
    \* 2: parallel lists of different lengths (positions past the end of
    \*    con_end, dec_tag and con_tag fall back to index 0)
    Rule("stdrule", None, << <<"a">>, <<>>, <<"b", "a">> >>, << <<"b">>, <<"b">> >>,
         <<"T", "U">>, <<"U">>, "multi"),
    \* 3: a standard rule without detail
    Rule("stdrule", None, << <<"a">> >>, << <<"b">> >>, <<"T">>, <<"U">>, ""),
    \* 4: rewrite
    Rule("rewriterule", None, << <<"b">> >>, << <<"a", "b">> >>, <<"U">>, <<"T">>, "rw"),
    \* 5: only-final, without con_tag
    Rule("onlyfinalrule", None, << <<"a">> >>, << <<"b">> >>, <<"stem-ren">>, <<>>, "of"),
    \* 6: never-final
    Rule("neverfinalrule", None, << <<>> >>, << <<"a">> >>, <<"T">>, <<"stem-ren">>, "nf"),
    \* 7: context rule v1inftrap
    Rule("contextrule", "v1inftrap", << <<"c">> >>, << <<"a">> >>, <<"U">>,
         <<"stem-ren">>, "v1"),
    \* 8: context rule saspecial
    Rule("contextrule", "saspecial", << <<"b">> >>, << <<"a">> >>, <<"U">>, <<"T">>, "sa"),
    \* 9: substitution
    Rule("substitution", None, << <<"b">> >>, << <<"a">> >>, <<>>, <<>>, "sub"),
    \* 10: substitution whose second pair replaces a by a
    Rule("substitution", None, << <<"c">>, <<"a">> >>, << <<"b">>, <<"a">> >>,
         <<>>, <<>>, "same"),
    \* 11: a standard rule that lengthens the text and sets no dec_tag
    Rule("stdrule", None, << <<"b", "b", "b", "b">> >>, << <<>> >>, <<>>, <<"T">>, "grow"),
    \* 12: a standard rule that appends a tag at every application
    Rule("stdrule", None, << <<"b">> >>, << <<>> >>, <<"U">>, <<"U">>, "tag"),
    \* 13: a standard rule without dec_tag whose rewrites form a cycle b, c
    Rule("stdrule", None, << <<"b">>, <<"c">>, <<"b">> >>,
         << <<"a">>, <<"b">>, <<"c">> >>, <<>>, <<"V">>, "cyc")
>>

\* the rules of RuleFile at the positions in S, in file order
RECURSIVE PickRules(_, _)
PickRules(k, S) ==
    IF k > Len(RuleFile) THEN <<>>
    ELSE (IF k \in S THEN <<RuleFile[k]>> ELSE <<>>) \o PickRules(k + 1, S)

RuleTables ==
    {PickRules(1, S) : S \in {T \in SUBSET (1..Len(RuleFile)) : Cardinality(T) <= MaxRules}}

DecAlphabet == {"a", "b"}

\* inputs for the saspecial check: an ending a after the two characters of
\* the literal, and after the hiragana sa
ContextTexts == {SaContextLiteral \o <<"a">>, <<"U+3055", "a">>}

DecTexts == SeqsUpTo(DecAlphabet, MaxDecTextLen) \cup ContextTexts

\* the deconjugator before any call
DecIdle ==
    /\ dtext = <<>>
    /\ rules = <<>>
    /\ dprocessed = {}
    /\ novel = {}
    /\ dpc = "idle"
    /\ round = 0

DecInit ==
    /\ dtext \in DecTexts
    /\ rules \in RuleTables
    /\ dprocessed = {}
    /\ novel = {}
    /\ dpc = "start"
    /\ round = 0

\* deconjugate, up to the loop: "" returns the empty set at once
DeconjStart ==
    /\ dpc = "start"
    /\ IF dtext = <<>>
       THEN /\ dpc' = "done"
            /\ novel' = novel
       ELSE /\ dpc' = "loop"
            /\ novel' = {InitialForm(dtext)}
    /\ UNCHANGED <<dtext, rules, dprocessed, round, decOthers>>

\* DeconjRound merging only the expanded forms of the frontier: a skipped
\* form is dropped instead of being kept in processed
DeconjRound_DropSkipped ==
    /\ dpc = "loop"
    /\ novel # {}
    /\ round < MaxRounds
    /\ novel' = NewNovel(novel, dprocessed, rules)
    /\ dprocessed' = dprocessed \cup {f \in novel : ~Skip(f)}
    /\ round' = round + 1
    /\ UNCHANGED <<dtext, rules, dpc, decOthers>>

\* one iteration of `while novel`
DeconjRound ==
    /\ dpc = "loop"
    /\ novel # {}
    /\ round < MaxRounds
    /\ novel' = NewNovel(novel, dprocessed, rules)
    /\ dprocessed' = dprocessed \cup novel
    /\ round' = round + 1
    /\ UNCHANGED <<dtext, rules, dpc, decOthers>>

\* the frontier is empty: `return processed`
DeconjReturn ==
    /\ dpc = "loop"
    /\ novel = {}
    /\ dpc' = "done"
    /\ UNCHANGED <<dtext, rules, dprocessed, novel, round, decOthers>>

DecNext == DeconjStart \/ DeconjRound \/ DeconjReturn

-----------------------------------------------------------------------------
(* Priority score: JmWord.get_priority_score (jmdict_loader.py) *)

Digits == <<"0", "1", "2", "3", "4", "5", "6", "7", "8", "9">>

\* str.isdigit, for ASCII digits
IsDigit(s) == s # <<>> /\ \A i \in 1..Len(s) : \E d \in 1..Len(Digits) : Digits[d] = s[i]

DigitValue(c) == (CHOOSE d \in 1..Len(Digits) : Digits[d] = c) - 1

\* int(s) of a digit string
RECURSIVE ToInt(_)
ToInt(s) ==
    IF s = <<>> THEN 0
    ELSE ToInt(SubSeq(s, 1, Len(s) - 1)) * 10 + DigitValue(s[Len(s)])

\* round(n / 10.0): Python rounds a tie to the even neighbour
RoundTenth(n) ==
    LET q == n \div 10
        r == n % 10
    IN  IF r < 5 THEN q
        ELSE IF r > 5 THEN q + 1
        ELSE IF q % 2 = 0 THEN q ELSE q + 1

Max(a, b) == IF a >= b THEN a ELSE b

\* any(p in S for p in pr)
AnyIn(pr, S) == \E i \in 1..Len(pr) : pr[i] \in S

\* any(p.startswith(prefix) for p in pr)
AnyStartsWith(pr, prefix) == \E i \in 1..Len(pr) : StartsWith(pr[i], prefix)

Tok_jiten == <<"j", "i", "t", "e", "n">>
Tok_ichi  == <<"i", "c", "h", "i">>
Tok_ichi1 == <<"i", "c", "h", "i", "1">>
Tok_ichi2 == <<"i", "c", "h", "i", "2">>
Tok_news1 == <<"n", "e", "w", "s", "1">>
Tok_news2 == <<"n", "e", "w", "s", "2">>
Tok_gai1  == <<"g", "a", "i", "1">>
Tok_gai2  == <<"g", "a", "i", "2">>
Tok_nf    == <<"n", "f">>
Tok_spec1 == <<"s", "p", "e", "c", "1">>
Tok_spec2 == <<"s", "p", "e", "c", "2">>

\* the POS tags "uk" (usually kana) and "n"
Tag_uk == <<"u", "k">>
Tag_n  == <<"n">>

IsNf(p) == StartsWith(p, Tok_nf) /\ IsDigit(SubSeq(p, 3, Len(p)))

\* the nfXX loop: the first matching tag counts, then `break`
NfScore(pr) ==
    LET hits == {i \in 1..Len(pr) : IsNf(pr[i])}
    IN  IF hits = {} THEN 0
        ELSE LET first == CHOOSE i \in hits : \A j \in hits : i <= j
                 nf_rank == ToInt(SubSeq(pr[first], 3, Len(pr[first])))
             IN  Max(0, 5 - RoundTenth(nf_rank))

\* IchiScore with the two branches in the other order: ichi2 is looked
\* for first and masks ichi1
IchiScore_Ichi2First(pr) ==
    IF AnyIn(pr, {Tok_ichi2}) THEN 10
    ELSE IF AnyIn(pr, {Tok_ichi1, Tok_ichi}) THEN 20 ELSE 0

\* the Ichi block: +20 for ichi1 / ichi, else +10 for ichi2
IchiScore(pr) ==
    IF AnyIn(pr, {Tok_ichi1, Tok_ichi}) THEN 20
    ELSE IF AnyIn(pr, {Tok_ichi2}) THEN 10 ELSE 0

\* the score before the `if score == 0` block
ScoreBeforeSpec(pr) ==
    (IF AnyIn(pr, {Tok_jiten}) THEN 100 ELSE 0)
    + IchiScore(pr)
    + (IF AnyStartsWith(pr, Tok_news1) THEN 15 ELSE 0)
    + (IF AnyStartsWith(pr, Tok_news2) THEN 10 ELSE 0)
    + (IF AnyIn(pr, {Tok_gai1, Tok_gai2}) THEN 5 ELSE 0)
    + NfScore(pr)

\* JmWord.get_priority_score
GetPriorityScore(pr, pos, kana) ==
    LET base == ScoreBeforeSpec(pr)
        spec == IF base = 0
                THEN (IF AnyIn(pr, {Tok_spec1}) THEN 15
                      ELSE IF AnyIn(pr, {Tok_spec2}) THEN 5 ELSE 0)
                ELSE 0
        bias == IF AnyIn(pos, {Tag_uk}) THEN (IF kana THEN 10 ELSE -10) ELSE 0
    IN  base + spec + bias

\* the priority tokens of the claim's list: jiten, ichi1, ichi2, news1*,
\* news2*, gai1, gai2, nfNN, spec1, spec2
KnownTokens ==
    {Tok_jiten, Tok_ichi1, Tok_ichi2, Tok_news1, Tok_news1 \o <<"k">>,
     Tok_news2 \o <<"k">>, Tok_gai1, Tok_gai2,
     Tok_nf \o <<"0", "5">>, Tok_nf \o <<"1", "5">>, Tok_nf \o <<"2", "5">>,
     Tok_nf \o <<"4", "8">>, Tok_spec1, Tok_spec2}

\* the tokens a term-bank row can carry: the known ones, the Yomitan
\* variant ichi, an nf tag with a one-digit suffix and a tag the score
\* does not know
RowTokens == KnownTokens \cup {Tok_ichi, Tok_nf \o <<"5">>, <<"x">>}

PosLists == {<<>>, <<Tag_n>>, <<Tag_uk>>, <<Tag_n, Tag_uk>>}

\* no word is being loaded
PrioIdle ==
    /\ priorities = <<>>
    /\ prev_priorities = <<>>
    /\ parts_of_speech = <<>>
    /\ is_kana = FALSE

\* JmWord(word_id=seq): empty priorities; the POS tags of the word and the
\* caller's is_kana are inputs
PrioInit ==
    /\ priorities = <<>>
    /\ prev_priorities = <<>>
    /\ parts_of_speech \in PosLists
    /\ is_kana \in BOOLEAN

\* `if t == "ichi": t = "ichi1"`
NormalizeToken(tok) == IF tok = Tok_ichi THEN Tok_ichi1 ELSE tok

\* ingest_zip, for one token of the priority field: normalized, then
\* appended unless the word already has it
IngestPriority(tok) ==
    /\ Len(priorities) < MaxPriorities
    /\ LET t == NormalizeToken(tok)
       IN  priorities' = IF \E i \in 1..Len(priorities) : priorities[i] = t
                         THEN priorities
                         ELSE Append(priorities, t)
    /\ prev_priorities' = priorities
    /\ UNCHANGED <<parts_of_speech, is_kana, prioOthers>>

PrioNext == \E tok \in RowTokens : IngestPriority(tok)

-----------------------------------------------------------------------------
(* Width and kana folding (jmdict_loader.py) *)

ASCII_DIGIT_START == 48
ASCII_DIGIT_END == 57
ASCII_UPPER_START == 65
ASCII_UPPER_END == 90
ASCII_LOWER_START == 97
ASCII_LOWER_END == 122
FULLWIDTH_DIGIT_START == 65296
FULLWIDTH_DIGIT_END == 65305
FULLWIDTH_UPPER_START == 65313
FULLWIDTH_UPPER_END == 65338
FULLWIDTH_LOWER_START == 65345
FULLWIDTH_LOWER_END == 65370
KATAKANA_SMALL_START == 12449
KATAKANA_SMALL_END == 12534

\* the code points of the kana the code names in literals
HIRAGANA_SMALL_WA == 12430
HIRAGANA_WA == 12431
KATAKANA_SMALL_WA == 12526

\* one character of _to_fullwidth_ascii
FullwidthChar(o) ==
    IF ASCII_DIGIT_START <= o /\ o <= ASCII_DIGIT_END
    THEN FULLWIDTH_DIGIT_START + (o - ASCII_DIGIT_START)
    ELSE IF ASCII_UPPER_START <= o /\ o <= ASCII_UPPER_END
    THEN FULLWIDTH_UPPER_START + (o - ASCII_UPPER_START)
    ELSE IF ASCII_LOWER_START <= o /\ o <= ASCII_LOWER_END
    THEN FULLWIDTH_LOWER_START + (o - ASCII_LOWER_START)
    ELSE o

\* _to_fullwidth_ascii
ToFullwidthAscii(s) == [i \in 1..Len(s) |-> FullwidthChar(s[i])]

\* HalfwidthChar with the lower-case branch offset from the upper-case start
HalfwidthChar_LowerAsUpper(o) ==
    IF FULLWIDTH_DIGIT_START <= o /\ o <= FULLWIDTH_DIGIT_END
    THEN ASCII_DIGIT_START + (o - FULLWIDTH_DIGIT_START)
    ELSE IF FULLWIDTH_UPPER_START <= o /\ o <= FULLWIDTH_UPPER_END
    THEN ASCII_UPPER_START + (o - FULLWIDTH_UPPER_START)
    ELSE IF FULLWIDTH_LOWER_START <= o /\ o <= FULLWIDTH_LOWER_END
    THEN ASCII_UPPER_START + (o - FULLWIDTH_LOWER_START)
    ELSE o

\* one character of _to_halfwidth_ascii
HalfwidthChar(o) ==
    IF FULLWIDTH_DIGIT_START <= o /\ o <= FULLWIDTH_DIGIT_END
    THEN ASCII_DIGIT_START + (o - FULLWIDTH_DIGIT_START)
    ELSE IF FULLWIDTH_UPPER_START <= o /\ o <= FULLWIDTH_UPPER_END
    THEN ASCII_UPPER_START + (o - FULLWIDTH_UPPER_START)
    ELSE IF FULLWIDTH_LOWER_START <= o /\ o <= FULLWIDTH_LOWER_END
    THEN ASCII_LOWER_START + (o - FULLWIDTH_LOWER_START)
    ELSE o

\* _to_halfwidth_ascii
ToHalfwidthAscii(s) == [i \in 1..Len(s) |-> HalfwidthChar(s[i])]

\* _katakana_to_hiragana
KatakanaToHiragana(s) ==
    [i \in 1..Len(s) |->
        IF KATAKANA_SMALL_START <= s[i] /\ s[i] <= KATAKANA_SMALL_END
        THEN s[i] - 96 ELSE s[i]]

\* the rewrite of the small wa characters, with only the hiragana one
\* rewritten
WaNormalize_HiraganaOnly(s) == Replace(s, <<HIRAGANA_SMALL_WA>>, <<HIRAGANA_WA>>)

\* s.replace(small hiragana wa, wa).replace(small katakana wa, wa)
WaNormalize(s) ==
    Replace(Replace(s, <<HIRAGANA_SMALL_WA>>, <<HIRAGANA_WA>>),
            <<KATAKANA_SMALL_WA>>, <<HIRAGANA_WA>>)

\* to_hiragana_preserve_long
ToHiraganaPreserveLong(s) == KatakanaToHiragana(WaNormalize(s))

\* the code points the width-folding runs draw from: each end of the six
\* ranges and its outer neighbour, and one kana
WidthCodePoints ==
    {47, 48, 57, 58, 64, 65, 90, 91, 96, 97, 122, 123,
     65295, 65296, 65305, 65306, 65312, 65313, 65338, 65339, 65344, 65345,
     65370, 65371, 12354}

\* the code points the kana-folding runs draw from: the small wa
\* characters and their targets, each end of the folded katakana range and
\* its outer neighbour, the images of the range's ends, the long mark, a
\* plain katakana and its hiragana, and a Latin letter
KanaCodePoints ==
    {12430, 12431, 12526, 12527, 12448, 12449, 12534, 12535, 12540,
     12353, 12438, 12459, 12363, 97}

\* no folding in progress
FoldIdle ==
    /\ fhist = <<>>
    /\ fops = <<>>

WidthInit ==
    /\ fhist \in {<<s>> : s \in SeqsUpTo(WidthCodePoints, MaxFoldLen)}
    /\ fops = <<>>

KanaInit ==
    /\ fhist \in {<<s>> : s \in SeqsUpTo(KanaCodePoints, MaxFoldLen)}
    /\ fops = <<>>

\* a call of _to_fullwidth_ascii on the latest string
CallToFullwidth ==
    /\ Len(fops) < MaxFoldOps
    /\ fhist' = Append(fhist, ToFullwidthAscii(fhist[Len(fhist)]))
    /\ fops' = Append(fops, "full")
    /\ UNCHANGED foldOthers

\* a call of _to_halfwidth_ascii on the latest string
CallToHalfwidth ==
    /\ Len(fops) < MaxFoldOps
    /\ fhist' = Append(fhist, ToHalfwidthAscii(fhist[Len(fhist)]))
    /\ fops' = Append(fops, "half")
    /\ UNCHANGED foldOthers

\* a call of to_hiragana_preserve_long on the latest string
CallToHiragana ==
    /\ Len(fops) < MaxFoldOps
    /\ fhist' = Append(fhist, ToHiraganaPreserveLong(fhist[Len(fhist)]))
    /\ fops' = Append(fops, "hira")
    /\ UNCHANGED foldOthers

WidthNext == CallToFullwidth \/ CallToHalfwidth

KanaNext == CallToHiragana

-----------------------------------------------------------------------------
(* POS decoders: to_part_of_speech and to_pos_section (_types.py).  A tag is
   a sequence of characters; a character outside ASCII is written U+XXXX *)

\* the values of the enum PartOfSpeech, by name
PartOfSpeech ==
    {"Unknown", "Noun", "Verb", "IAdjective", "Adverb", "Particle",
     "Conjunction", "Auxiliary", "Adnominal", "Interjection", "Symbol",
     "Prefix", "Filler", "Name", "Pronoun", "NaAdjective", "Suffix",
     "CommonNoun", "SupplementarySymbol", "BlankSpace", "Expression",
     "NominalAdjective", "Numeral", "PrenounAdjectival", "Counter",
     "AdverbTo", "NounSuffix"}

\* the values of the enum PartOfSpeechSection, by name
PartOfSpeechSection ==
    {"None_", "Amount", "Alphabet", "FullStop", "BlankSpace", "Suffix",
     "Pronoun", "Independant", "Dependant", "Filler", "Common",
     "SentenceEndingParticle", "Counter", "ParallelMarker", "BindingParticle",
     "PotentialAdverb", "CaseMarkingParticle", "IrregularConjunction",
     "ConjunctionParticle", "AuxiliaryVerbStem", "AdjectivalStem",
     "CompoundWord", "Quotation", "NounConjunction", "AdverbialParticle",
     "ConjunctiveParticleClass", "Adverbialization",
     "AdverbialParticleOrParallelMarkerOrSentenceEndingParticle",
     "AdnominalAdjective", "ProperNoun", "Special", "VerbConjunction",
     "PersonName", "FamilyName", "Organization", "NotAdjectiveStem", "Comma",
     "OpeningBracket", "ClosingBracket", "Region", "Country", "Numeral",
     "PossibleDependant", "CommonNoun", "SubstantiveAdjective",
     "PossibleCounterWord", "PossibleSuru", "Juntaijoushi",
     "PossibleNaAdjective", "VerbLike", "PossibleVerbSuruNoun", "Adjectival",
     "NaAdjectiveLike", "Name", "Letter", "PlaceName", "TaruAdjective"}

\* to_part_of_speech: the first test that holds decides
ToPartOfSpeech(p) ==
    \* p in {"名詞", "n"}
    IF p \in {<<"U+540D", "U+8A5E">>, <<"n">>} THEN "Noun"
    \* p == "動詞" or p.startswith("v")
    ELSE IF p = <<"U+52D5", "U+8A5E">> \/ StartsWith(p, <<"v">>) THEN "Verb"
    \* p in {"形容詞", "adj-i", "adj-ix"}
    ELSE IF p \in {<<"U+5F62", "U+5BB9", "U+8A5E">>, <<"a", "d", "j", "-", "i">>,
              <<"a", "d", "j", "-", "i", "x">>} THEN "IAdjective"
    \* p in {"形状詞", "adj-na"}
    ELSE IF p \in {<<"U+5F62", "U+72B6", "U+8A5E">>,
              <<"a", "d", "j", "-", "n", "a">>} THEN "NaAdjective"
    \* p in {"副詞", "adv"}
    ELSE IF p \in {<<"U+526F", "U+8A5E">>, <<"a", "d", "v">>} THEN "Adverb"
    \* p in {"助詞", "prt"}
    ELSE IF p \in {<<"U+52A9", "U+8A5E">>, <<"p", "r", "t">>} THEN "Particle"
    \* p in {"接続詞", "conj"}
    ELSE IF p \in {<<"U+63A5", "U+7D9A", "U+8A5E">>, <<"c", "o", "n", "j">>} THEN "Conjunction"
    \* p in {"助動詞", "aux", "aux-v"}
    ELSE IF p \in {<<"U+52A9", "U+52D5", "U+8A5E">>, <<"a", "u", "x">>,
              <<"a", "u", "x", "-", "v">>} THEN "Auxiliary"
    \* p in {"感動詞", "int"}
    ELSE IF p \in {<<"U+611F", "U+52D5", "U+8A5E">>, <<"i", "n", "t">>} THEN "Interjection"
    \* p == "記号"
    ELSE IF p = <<"U+8A18", "U+53F7">> THEN "Symbol"
    \* p in {"接頭詞", "接頭辞", "pref"}
    ELSE IF p \in {<<"U+63A5", "U+982D", "U+8A5E">>,
              <<"U+63A5", "U+982D", "U+8F9E">>, <<"p", "r", "e", "f">>} THEN "Prefix"
    \* p == "フィラー"
    ELSE IF p = <<"U+30D5", "U+30A3", "U+30E9", "U+30FC">> THEN "Filler"
    \* p in { "名", "company", "given", "place", "person", "product", "shi ...
    ELSE IF p \in {<<"U+540D">>, <<"c", "o", "m", "p", "a", "n", "y">>,
              <<"g", "i", "v", "e", "n">>, <<"p", "l", "a", "c", "e">>,
              <<"p", "e", "r", "s", "o", "n">>,
              <<"p", "r", "o", "d", "u", "c", "t">>, <<"s", "h", "i", "p">>,
              <<"s", "u", "r", "n", "a", "m", "e">>,
              <<"u", "n", "c", "l", "a", "s", "s">>,
              <<"n", "a", "m", "e", "-", "f", "e", "m">>,
              <<"n", "a", "m", "e", "-", "m", "a", "s", "c">>,
              <<"s", "t", "a", "t", "i", "o", "n">>,
              <<"g", "r", "o", "u", "p">>, <<"c", "h", "a", "r">>,
              <<"c", "r", "e", "a", "t">>, <<"d", "e", "i">>,
              <<"d", "o", "c">>, <<"e", "v">>, <<"f", "e", "m">>,
              <<"f", "i", "c", "t">>, <<"l", "e", "g">>,
              <<"m", "a", "s", "c">>, <<"m", "y", "t", "h">>,
              <<"o", "b", "j">>,
              <<"o", "r", "g", "a", "n", "i", "z", "a", "t", "i", "o", "n">>,
              <<"o", "t", "h">>, <<"r", "e", "l", "i", "g">>,
              <<"s", "e", "r", "v">>, <<"w", "o", "r", "k">>,
              <<"u", "n", "c">>} THEN "Name"
    \* p in {"代名詞", "pn"}
    ELSE IF p \in {<<"U+4EE3", "U+540D", "U+8A5E">>, <<"p", "n">>} THEN "Pronoun"
    \* p in {"接尾辞", "suf"}
    ELSE IF p \in {<<"U+63A5", "U+5C3E", "U+8F9E">>, <<"s", "u", "f">>} THEN "Suffix"
    \* p == "普通名詞"
    ELSE IF p = <<"U+666E", "U+901A", "U+540D", "U+8A5E">> THEN "CommonNoun"
    \* p == "補助記号"
    ELSE IF p = <<"U+88DC", "U+52A9", "U+8A18", "U+53F7">> THEN "SupplementarySymbol"
    \* p == "空白"
    ELSE IF p = <<"U+7A7A", "U+767D">> THEN "BlankSpace"
    \* p in {"表現", "exp"}
    ELSE IF p \in {<<"U+8868", "U+73FE">>, <<"e", "x", "p">>} THEN "Expression"
    \* p in {"形動", "adj-no", "adj-t", "adj-f"}
    ELSE IF p \in {<<"U+5F62", "U+52D5">>, <<"a", "d", "j", "-", "n", "o">>,
              <<"a", "d", "j", "-", "t">>, <<"a", "d", "j", "-", "f">>} THEN "NominalAdjective"
    \* p in {"連体詞", "adj-pn"}
    ELSE IF p \in {<<"U+9023", "U+4F53", "U+8A5E">>,
              <<"a", "d", "j", "-", "p", "n">>} THEN "PrenounAdjectival"
    \* p in {"数詞", "num"}
    ELSE IF p \in {<<"U+6570", "U+8A5E">>, <<"n", "u", "m">>} THEN "Numeral"
    \* p in {"助数詞", "ctr"}
    ELSE IF p \in {<<"U+52A9", "U+6570", "U+8A5E">>, <<"c", "t", "r">>} THEN "Counter"
    \* p in {"副詞的と", "adv-to"}
    ELSE IF p \in {<<"U+526F", "U+8A5E", "U+7684", "U+3068">>,
              <<"a", "d", "v", "-", "t", "o">>} THEN "AdverbTo"
    \* p in {"名詞接尾辞", "n-suf"}
    ELSE IF p \in {<<"U+540D", "U+8A5E", "U+63A5", "U+5C3E", "U+8F9E">>,
              <<"n", "-", "s", "u", "f">>} THEN "NounSuffix"
    ELSE "Unknown"

\* the strings the tests of to_part_of_speech name
ToPartOfSpeechStrings ==
    {<<"U+540D", "U+8A5E">>, <<"n">>, <<"U+52D5", "U+8A5E">>,
     <<"U+5F62", "U+5BB9", "U+8A5E">>, <<"a", "d", "j", "-", "i">>,
     <<"a", "d", "j", "-", "i", "x">>, <<"U+5F62", "U+72B6", "U+8A5E">>,
     <<"a", "d", "j", "-", "n", "a">>, <<"U+526F", "U+8A5E">>,
     <<"a", "d", "v">>, <<"U+52A9", "U+8A5E">>, <<"p", "r", "t">>,
     <<"U+63A5", "U+7D9A", "U+8A5E">>, <<"c", "o", "n", "j">>,
     <<"U+52A9", "U+52D5", "U+8A5E">>, <<"a", "u", "x">>,
     <<"a", "u", "x", "-", "v">>, <<"U+611F", "U+52D5", "U+8A5E">>,
     <<"i", "n", "t">>, <<"U+8A18", "U+53F7">>,
     <<"U+63A5", "U+982D", "U+8A5E">>, <<"U+63A5", "U+982D", "U+8F9E">>,
     <<"p", "r", "e", "f">>, <<"U+30D5", "U+30A3", "U+30E9", "U+30FC">>,
     <<"U+540D">>, <<"c", "o", "m", "p", "a", "n", "y">>,
     <<"g", "i", "v", "e", "n">>, <<"p", "l", "a", "c", "e">>,
     <<"p", "e", "r", "s", "o", "n">>, <<"p", "r", "o", "d", "u", "c", "t">>,
     <<"s", "h", "i", "p">>, <<"s", "u", "r", "n", "a", "m", "e">>,
     <<"u", "n", "c", "l", "a", "s", "s">>,
     <<"n", "a", "m", "e", "-", "f", "e", "m">>,
     <<"n", "a", "m", "e", "-", "m", "a", "s", "c">>,
     <<"s", "t", "a", "t", "i", "o", "n">>, <<"g", "r", "o", "u", "p">>,
     <<"c", "h", "a", "r">>, <<"c", "r", "e", "a", "t">>, <<"d", "e", "i">>,
     <<"d", "o", "c">>, <<"e", "v">>, <<"f", "e", "m">>,
     <<"f", "i", "c", "t">>, <<"l", "e", "g">>, <<"m", "a", "s", "c">>,
     <<"m", "y", "t", "h">>, <<"o", "b", "j">>,
     <<"o", "r", "g", "a", "n", "i", "z", "a", "t", "i", "o", "n">>,
     <<"o", "t", "h">>, <<"r", "e", "l", "i", "g">>, <<"s", "e", "r", "v">>,
     <<"w", "o", "r", "k">>, <<"u", "n", "c">>,
     <<"U+4EE3", "U+540D", "U+8A5E">>, <<"p", "n">>,
     <<"U+63A5", "U+5C3E", "U+8F9E">>, <<"s", "u", "f">>,
     <<"U+666E", "U+901A", "U+540D", "U+8A5E">>,
     <<"U+88DC", "U+52A9", "U+8A18", "U+53F7">>, <<"U+7A7A", "U+767D">>,
     <<"U+8868", "U+73FE">>, <<"e", "x", "p">>, <<"U+5F62", "U+52D5">>,
     <<"a", "d", "j", "-", "n", "o">>, <<"a", "d", "j", "-", "t">>,
     <<"a", "d", "j", "-", "f">>, <<"U+9023", "U+4F53", "U+8A5E">>,
     <<"a", "d", "j", "-", "p", "n">>, <<"U+6570", "U+8A5E">>,
     <<"n", "u", "m">>, <<"U+52A9", "U+6570", "U+8A5E">>, <<"c", "t", "r">>,
     <<"U+526F", "U+8A5E", "U+7684", "U+3068">>,
     <<"a", "d", "v", "-", "t", "o">>,
     <<"U+540D", "U+8A5E", "U+63A5", "U+5C3E", "U+8F9E">>,
     <<"n", "-", "s", "u", "f">>}

\* to_pos_section: the first test that holds decides
ToPosSection(p) ==
    \* p == "*"
    IF p = <<"*">> THEN "None_"
    \* p == "数"
    ELSE IF p = <<"U+6570">> THEN "Amount"
    \* p == "アルファベット"
    ELSE IF p = <<"U+30A2", "U+30EB", "U+30D5", "U+30A1", "U+30D9", "U+30C3", "U+30C8">> THEN "Alphabet"
    \* p == "句点"
    ELSE IF p = <<"U+53E5", "U+70B9">> THEN "FullStop"
    \* p == "空白"
    ELSE IF p = <<"U+7A7A", "U+767D">> THEN "BlankSpace"
    \* p in {"接尾", "suf"}
    ELSE IF p \in {<<"U+63A5", "U+5C3E">>, <<"s", "u", "f">>} THEN "Suffix"
    \* p in {"代名詞", "pn"}
    ELSE IF p \in {<<"U+4EE3", "U+540D", "U+8A5E">>, <<"p", "n">>} THEN "Pronoun"
    \* p == "自立"
    ELSE IF p = <<"U+81EA", "U+7ACB">> THEN "Independant"
    \* p == "フィラー"
    ELSE IF p = <<"U+30D5", "U+30A3", "U+30E9", "U+30FC">> THEN "Filler"
    \* p == "一般"
    ELSE IF p = <<"U+4E00", "U+822C">> THEN "Common"
    \* p == "非自立"
    ELSE IF p = <<"U+975E", "U+81EA", "U+7ACB">> THEN "Dependant"
    \* p == "終助詞"
    ELSE IF p = <<"U+7D42", "U+52A9", "U+8A5E">> THEN "SentenceEndingParticle"
    \* p in {"助数詞", "ctr"}
    ELSE IF p \in {<<"U+52A9", "U+6570", "U+8A5E">>, <<"c", "t", "r">>} THEN "Counter"
    \* p == "並立助詞"
    ELSE IF p = <<"U+4E26", "U+7ACB", "U+52A9", "U+8A5E">> THEN "ParallelMarker"
    \* p == "係助詞"
    ELSE IF p = <<"U+4FC2", "U+52A9", "U+8A5E">> THEN "BindingParticle"
    \* p == "副詞可能"
    ELSE IF p = <<"U+526F", "U+8A5E", "U+53EF", "U+80FD">> THEN "PotentialAdverb"
    \* p == "格助詞"
    ELSE IF p = <<"U+683C", "U+52A9", "U+8A5E">> THEN "CaseMarkingParticle"
    \* p == "サ変接続"
    ELSE IF p = <<"U+30B5", "U+5909", "U+63A5", "U+7D9A">> THEN "IrregularConjunction"
    \* p == "接続助詞"
    ELSE IF p = <<"U+63A5", "U+7D9A", "U+52A9", "U+8A5E">> THEN "ConjunctionParticle"
    \* p == "助動詞語幹"
    ELSE IF p = <<"U+52A9", "U+52D5", "U+8A5E", "U+8A9E", "U+5E79">> THEN "AuxiliaryVerbStem"
    \* p == "形容動詞語幹"
    ELSE IF p = <<"U+5F62", "U+5BB9", "U+52D5", "U+8A5E", "U+8A9E", "U+5E79">> THEN "AdjectivalStem"
    \* p == "連語"
    ELSE IF p = <<"U+9023", "U+8A9E">> THEN "CompoundWord"
    \* p == "引用"
    ELSE IF p = <<"U+5F15", "U+7528">> THEN "Quotation"
    \* p == "名詞接続"
    ELSE IF p = <<"U+540D", "U+8A5E", "U+63A5", "U+7D9A">> THEN "NounConjunction"
    \* p == "副助詞"
    ELSE IF p = <<"U+526F", "U+52A9", "U+8A5E">> THEN "AdverbialParticle"
    \* p == "助詞類接続"
    ELSE IF p = <<"U+52A9", "U+8A5E", "U+985E", "U+63A5", "U+7D9A">> THEN "ConjunctiveParticleClass"
    \* p == "副詞化"
    ELSE IF p = <<"U+526F", "U+8A5E", "U+5316">> THEN "Adverbialization"
    \* p == "副助詞\uff0f並立助詞\uff0f終助詞"
    ELSE IF p = <<"U+526F", "U+52A9", "U+8A5E", "U+FF0F", "U+4E26", "U+7ACB", "U+52A9", "U+8A5E", "U+FF0F", "U+7D42", "U+52A9", "U+8A5E">> THEN "AdverbialParticleOrParallelMarkerOrSentenceEndingParticle"
    \* p == "連体化"
    ELSE IF p = <<"U+9023", "U+4F53", "U+5316">> THEN "AdnominalAdjective"
    \* p == "固有名詞"
    ELSE IF p = <<"U+56FA", "U+6709", "U+540D", "U+8A5E">> THEN "ProperNoun"
    \* p == "特殊"
    ELSE IF p = <<"U+7279", "U+6B8A">> THEN "Special"
    \* p == "動詞接続"
    ELSE IF p = <<"U+52D5", "U+8A5E", "U+63A5", "U+7D9A">> THEN "VerbConjunction"
    \* p == "人名"
    ELSE IF p = <<"U+4EBA", "U+540D">> THEN "PersonName"
    \* p == "姓"
    ELSE IF p = <<"U+59D3">> THEN "FamilyName"
    \* p == "組織"
    ELSE IF p = <<"U+7D44", "U+7E54">> THEN "Organization"
    \* p == "ナイ形容詞語幹"
    ELSE IF p = <<"U+30CA", "U+30A4", "U+5F62", "U+5BB9", "U+8A5E", "U+8A9E", "U+5E79">> THEN "NotAdjectiveStem"
    \* p == "読点"
    ELSE IF p = <<"U+8AAD", "U+70B9">> THEN "Comma"
    \* p == "括弧開"
    ELSE IF p = <<"U+62EC", "U+5F27", "U+958B">> THEN "OpeningBracket"
    \* p == "括弧閉"
    ELSE IF p = <<"U+62EC", "U+5F27", "U+9589">> THEN "ClosingBracket"
    \* p == "地域"
    ELSE IF p = <<"U+5730", "U+57DF">> THEN "Region"
    \* p == "国"
    ELSE IF p = <<"U+56FD">> THEN "Country"
    \* p in {"数詞", "num"}
    ELSE IF p \in {<<"U+6570", "U+8A5E">>, <<"n", "u", "m">>} THEN "Numeral"
    \* p == "非自立可能"
    ELSE IF p = <<"U+975E", "U+81EA", "U+7ACB", "U+53EF", "U+80FD">> THEN "PossibleDependant"
    \* p == "普通名詞"
    ELSE IF p = <<"U+666E", "U+901A", "U+540D", "U+8A5E">> THEN "CommonNoun"
    \* p == "名詞的"
    ELSE IF p = <<"U+540D", "U+8A5E", "U+7684">> THEN "SubstantiveAdjective"
    \* p == "助数詞可能"
    ELSE IF p = <<"U+52A9", "U+6570", "U+8A5E", "U+53EF", "U+80FD">> THEN "PossibleCounterWord"
    \* p == "サ変可能"
    ELSE IF p = <<"U+30B5", "U+5909", "U+53EF", "U+80FD">> THEN "PossibleSuru"
    \* p == "準体助詞"
    ELSE IF p = <<"U+6E96", "U+4F53", "U+52A9", "U+8A5E">> THEN "Juntaijoushi"
    \* p == "形状詞可能"
    ELSE IF p = <<"U+5F62", "U+72B6", "U+8A5E", "U+53EF", "U+80FD">> THEN "PossibleNaAdjective"
    \* p == "動詞的"
    ELSE IF p = <<"U+52D5", "U+8A5E", "U+7684">> THEN "VerbLike"
    \* p == "サ変形状詞可能"
    ELSE IF p = <<"U+30B5", "U+5909", "U+5F62", "U+72B6", "U+8A5E", "U+53EF", "U+80FD">> THEN "PossibleVerbSuruNoun"
    \* p == "形容詞的"
    ELSE IF p = <<"U+5F62", "U+5BB9", "U+8A5E", "U+7684">> THEN "Adjectival"
    \* p == "名"
    ELSE IF p = <<"U+540D">> THEN "Name"
    \* p == "文字"
    ELSE IF p = <<"U+6587", "U+5B57">> THEN "Letter"
    \* p == "形状詞的"
    ELSE IF p = <<"U+5F62", "U+72B6", "U+8A5E", "U+7684">> THEN "NaAdjectiveLike"
    \* p == "地名"
    ELSE IF p = <<"U+5730", "U+540D">> THEN "PlaceName"
    \* p == "タリ"
    ELSE IF p = <<"U+30BF", "U+30EA">> THEN "TaruAdjective"
    ELSE "None_"

\* the strings the tests of to_pos_section name
ToPosSectionStrings ==
    {<<"*">>, <<"U+6570">>,
     <<"U+30A2", "U+30EB", "U+30D5", "U+30A1", "U+30D9", "U+30C3", "U+30C8">>,
     <<"U+53E5", "U+70B9">>, <<"U+7A7A", "U+767D">>, <<"U+63A5", "U+5C3E">>,
     <<"s", "u", "f">>, <<"U+4EE3", "U+540D", "U+8A5E">>, <<"p", "n">>,
     <<"U+81EA", "U+7ACB">>, <<"U+30D5", "U+30A3", "U+30E9", "U+30FC">>,
     <<"U+4E00", "U+822C">>, <<"U+975E", "U+81EA", "U+7ACB">>,
     <<"U+7D42", "U+52A9", "U+8A5E">>, <<"U+52A9", "U+6570", "U+8A5E">>,
     <<"c", "t", "r">>, <<"U+4E26", "U+7ACB", "U+52A9", "U+8A5E">>,
     <<"U+4FC2", "U+52A9", "U+8A5E">>,
     <<"U+526F", "U+8A5E", "U+53EF", "U+80FD">>,
     <<"U+683C", "U+52A9", "U+8A5E">>,
     <<"U+30B5", "U+5909", "U+63A5", "U+7D9A">>,
     <<"U+63A5", "U+7D9A", "U+52A9", "U+8A5E">>,
     <<"U+52A9", "U+52D5", "U+8A5E", "U+8A9E", "U+5E79">>,
     <<"U+5F62", "U+5BB9", "U+52D5", "U+8A5E", "U+8A9E", "U+5E79">>,
     <<"U+9023", "U+8A9E">>, <<"U+5F15", "U+7528">>,
     <<"U+540D", "U+8A5E", "U+63A5", "U+7D9A">>,
     <<"U+526F", "U+52A9", "U+8A5E">>,
     <<"U+52A9", "U+8A5E", "U+985E", "U+63A5", "U+7D9A">>,
     <<"U+526F", "U+8A5E", "U+5316">>,
     <<"U+526F", "U+52A9", "U+8A5E", "U+FF0F", "U+4E26", "U+7ACB", "U+52A9", "U+8A5E", "U+FF0F", "U+7D42", "U+52A9", "U+8A5E">>,
     <<"U+9023", "U+4F53", "U+5316">>,
     <<"U+56FA", "U+6709", "U+540D", "U+8A5E">>, <<"U+7279", "U+6B8A">>,
     <<"U+52D5", "U+8A5E", "U+63A5", "U+7D9A">>, <<"U+4EBA", "U+540D">>,
     <<"U+59D3">>, <<"U+7D44", "U+7E54">>,
     <<"U+30CA", "U+30A4", "U+5F62", "U+5BB9", "U+8A5E", "U+8A9E", "U+5E79">>,
     <<"U+8AAD", "U+70B9">>, <<"U+62EC", "U+5F27", "U+958B">>,
     <<"U+62EC", "U+5F27", "U+9589">>, <<"U+5730", "U+57DF">>, <<"U+56FD">>,
     <<"U+6570", "U+8A5E">>, <<"n", "u", "m">>,
     <<"U+975E", "U+81EA", "U+7ACB", "U+53EF", "U+80FD">>,
     <<"U+666E", "U+901A", "U+540D", "U+8A5E">>,
     <<"U+540D", "U+8A5E", "U+7684">>,
     <<"U+52A9", "U+6570", "U+8A5E", "U+53EF", "U+80FD">>,
     <<"U+30B5", "U+5909", "U+53EF", "U+80FD">>,
     <<"U+6E96", "U+4F53", "U+52A9", "U+8A5E">>,
     <<"U+5F62", "U+72B6", "U+8A5E", "U+53EF", "U+80FD">>,
     <<"U+52D5", "U+8A5E", "U+7684">>,
     <<"U+30B5", "U+5909", "U+5F62", "U+72B6", "U+8A5E", "U+53EF", "U+80FD">>,
     <<"U+5F62", "U+5BB9", "U+8A5E", "U+7684">>, <<"U+540D">>,
     <<"U+6587", "U+5B57">>, <<"U+5F62", "U+72B6", "U+8A5E", "U+7684">>,
     <<"U+5730", "U+540D">>, <<"U+30BF", "U+30EA">>}

\* strings none of the tests names: the empty string, a tag in the wrong
\* case, an unused tag, and tags of the verb family
OtherStrings == {<<>>, <<"N">>, <<"x">>, <<"a", "d", "j">>, <<"v">>, <<"v", "1">>, <<"v", "5", "k">>}

PosInputs == ToPartOfSpeechStrings \cup ToPosSectionStrings \cup OtherStrings

\* no decoder is being called
PosIdle ==
    /\ pos_in = <<>>
    /\ pos_fn = "none"
    /\ pos_out = ""

PosInit ==
    /\ pos_in \in PosInputs
    /\ pos_fn = "none"
    /\ pos_out = ""

CallToPartOfSpeech ==
    /\ pos_fn = "none"
    /\ pos_fn' = "to_part_of_speech"
    /\ pos_out' = ToPartOfSpeech(pos_in)
    /\ UNCHANGED <<pos_in, posOthers>>

CallToPosSection ==
    /\ pos_fn = "none"
    /\ pos_fn' = "to_pos_section"
    /\ pos_out' = ToPosSection(pos_in)
    /\ UNCHANGED <<pos_in, posOthers>>

PosNext == CallToPartOfSpeech \/ CallToPosSection

-----------------------------------------------------------------------------
(* The lexicon: load_jmdict (jmdict_loader.py).  Spellings, readings and
   keys are sequences of code points; tags are sequences of characters *)

KATAKANA_START == 12448
KATAKANA_END == 12543
PROLONGED_SOUND_MARK == 12540

\* all(_is_katakana(ch) for ch in r)
IsKatakana(r) ==
    \A i \in 1..Len(r) :
        (KATAKANA_START <= r[i] /\ r[i] <= KATAKANA_END) \/ r[i] = PROLONGED_SOUND_MARK

\* _HIRA_VOWEL.get(ch): the vowel of a hiragana, 0 for a character without
\* entry
HiraVowel(code) ==
    \* a: あかがさざただなはばぱまやらわ
    IF code \in {12354, 12363, 12364, 12373, 12374, 12383, 12384, 12394,
                 12399, 12400, 12401, 12414, 12420, 12425, 12431}
    THEN 12354
    \* i: いきぎしじちぢにひびぴみりゐ
    ELSE IF code \in {12356, 12365, 12366, 12375, 12376, 12385, 12386, 12395,
                      12402, 12403, 12404, 12415, 12426, 12432}
    THEN 12356
    \* u: うくぐすずつづぬふぶぷむゆる
    ELSE IF code \in {12358, 12367, 12368, 12377, 12378, 12388, 12389, 12396,
                      12405, 12406, 12407, 12416, 12422, 12427}
    THEN 12358
    \* e: えけげせぜてでねへべぺめれゑ
    ELSE IF code \in {12360, 12369, 12370, 12379, 12380, 12390, 12391, 12397,
                      12408, 12409, 12410, 12417, 12428, 12433}
    THEN 12360
    \* o: おこごそぞとどのほぼぽもよろを
    ELSE IF code \in {12362, 12371, 12372, 12381, 12382, 12392, 12393, 12398,
                      12411, 12412, 12413, 12418, 12424, 12429, 12434}
    THEN 12362
    ELSE 0

\* the loop of _expand_long_vowels from the characters s on, prev_vowel
\* being 0 for ""
RECURSIVE ExpandFrom(_, _)
ExpandFrom(s, prev_vowel) ==
    IF s = <<>> THEN <<>>
    ELSE IF Head(s) = PROLONGED_SOUND_MARK
         THEN (IF prev_vowel # 0 THEN <<prev_vowel>> ELSE <<>>)
                  \o ExpandFrom(Tail(s), prev_vowel)
         ELSE <<Head(s)>>
                  \o ExpandFrom(Tail(s), IF HiraVowel(Head(s)) # 0
                                         THEN HiraVowel(Head(s)) ELSE prev_vowel)

ExpandLongVowels(hira) == ExpandFrom(hira, 0)

ToHiraganaExpandLong(s) == ExpandLongVowels(KatakanaToHiragana(WaNormalize(s)))

\* JmWord(word_id=seq); definitions, which nothing but load_jmdict reads,
\* are left out
JmWord(word_id) ==
    [word_id |-> word_id, readings |-> {}, spellings |-> {},
     parts_of_speech |-> <<>>, priorities |-> <<>>]

\* a term-bank row: row[0], row[1], row[2].split(), row[6] with
\* isinstance(row[6], int), and the tokens of row[7]
Row(term, reading, pos_tags, seq, seq_is_int, priority) ==
    [term |-> term, reading |-> reading, pos_tags |-> pos_tags, seq |-> seq,
     seq_is_int |-> seq_is_int, priority |-> priority]

\* for x in items: if x not in lst: lst.append(x)
RECURSIVE AppendMissing(_, _)
AppendMissing(lst, items) ==
    IF items = <<>> THEN lst
    ELSE AppendMissing(IF \E i \in 1..Len(lst) : lst[i] = Head(items)
                       THEN lst ELSE Append(lst, Head(items)),
                       Tail(items))

\* the body of `for row in data` on one row: the word the row leaves in
\* words[seq]
IngestedWord(words, row) ==
    LET w == IF row.seq \in DOMAIN words THEN words[row.seq] ELSE JmWord(row.seq)
        readings1 == IF row.reading # <<>> THEN w.readings \cup {row.reading}
                     ELSE w.readings
    IN  [w EXCEPT
           !.readings = IF row.term # <<>> THEN readings1 \cup {row.term} ELSE readings1,
           !.spellings = IF row.term # <<>> THEN @ \cup {row.term} ELSE @,
           !.parts_of_speech = AppendMissing(@, row.pos_tags),
           !.priorities = AppendMissing(@, [i \in 1..Len(row.priority) |->
                                               NormalizeToken(row.priority[i])])]

\* words[key] = w, on the mapping and on its key order
PutWord(words, w) == (w.word_id :> w) @@ words

PutId(ids, word_id) ==
    IF \E i \in 1..Len(ids) : ids[i] = word_id THEN ids ELSE Append(ids, word_id)

\* the three words of _inject_custom_words
CustomWords == <<
    \* 8000000: でした (exp)
    [word_id |-> 8000000, readings |-> {<<12391, 12375, 12383>>},
     spellings |-> {<<12391, 12375, 12383>>},
     parts_of_speech |-> << <<"e", "x", "p">> >>, priorities |-> <<>>],
    \* 8000001: イクシオトキシン (n)
    [word_id |-> 8000001,
     readings |-> {<<12452, 12463, 12471, 12458, 12488, 12461, 12471, 12531>>},
     spellings |-> {<<12452, 12463, 12471, 12458, 12488, 12461, 12471, 12531>>},
     parts_of_speech |-> << <<"n">> >>, priorities |-> <<>>],
    \* 8000002: 逢魔 / おうま (exp)
    [word_id |-> 8000002,
     readings |-> {<<36898, 39764>>, <<12362, 12358, 12414>>},
     spellings |-> {<<36898, 39764>>},
     parts_of_speech |-> << <<"e", "x", "p">> >>, priorities |-> <<>>]
>>

RECURSIVE InjectWords(_, _)
InjectWords(words, k) ==
    IF k > Len(CustomWords) THEN words
    ELSE InjectWords(PutWord(words, CustomWords[k]), k + 1)

RECURSIVE InjectIds(_, _)
InjectIds(ids, k) ==
    IF k > Len(CustomWords) THEN ids
    ELSE InjectIds(PutId(ids, CustomWords[k].word_id), k + 1)

\* _lk_add always appending: the last element is not compared
LkAdd_Always(lk, key, word_id) ==
    IF key \notin DOMAIN lk THEN (key :> <<word_id>>) @@ lk
    ELSE [lk EXCEPT ![key] = Append(@, word_id)]

\* _lk_add
LkAdd(lk, key, word_id) ==
    IF key \notin DOMAIN lk THEN (key :> <<word_id>>) @@ lk
    ELSE IF lk[key] = <<>> \/ lk[key][Len(lk[key])] # word_id
         THEN [lk EXCEPT ![key] = Append(@, word_id)]
         ELSE lk

\* the body of `for s in w.spellings`
AddSpelling(lk, s, word_id) ==
    LET hw == ToHalfwidthAscii(s)
        fw == ToFullwidthAscii(s)
        lk1 == LkAdd(lk, s, word_id)
        lk2 == IF hw # s THEN LkAdd(lk1, hw, word_id) ELSE lk1
    IN  IF fw # s THEN LkAdd(lk2, fw, word_id) ELSE lk2

\* the body of `for r in w.readings`
AddReading(lk, r, word_id) ==
    LET key1 == ToHiraganaPreserveLong(r)
        key2 == ToHiraganaExpandLong(r)
        hw == ToHalfwidthAscii(r)
        fw == ToFullwidthAscii(r)
        lk1 == LkAdd(lk, key1, word_id)
        lk2 == IF key2 # key1 THEN LkAdd(lk1, key2, word_id) ELSE lk1
        lk3 == IF IsKatakana(r) THEN LkAdd(lk2, r, word_id) ELSE lk2
        lk4 == IF hw # r THEN LkAdd(lk3, hw, word_id) ELSE lk3
    IN  IF fw # r THEN LkAdd(lk4, fw, word_id) ELSE lk4

\* the rows the term banks of the model hold.  Characters: ka in katakana
\* (12459) and hiragana (12363), the long mark (12540), the letter a (97)
TermBankRows == {
    \* カ / か, noun, word 1
    Row(<<12459>>, <<12363>>, <<Tag_n>>, 1, TRUE, <<Tok_ichi>>),
    \* か without reading, verb, word 2
    Row(<<12363>>, <<>>, << <<"v", "1">> >>, 2, TRUE, <<>>),
    \* a / カー, noun, word 1
    Row(<<97>>, <<12459, 12540>>, <<Tag_n, Tag_uk>>, 1, TRUE, <<Tok_news1 \o <<"k">>, Tok_ichi>>),
    \* カー / か, noun, word 2
    Row(<<12459, 12540>>, <<12363>>, <<Tag_n>>, 2, TRUE, <<Tok_spec1>>),
    \* a row without term and reading, word 2
    Row(<<>>, <<>>, <<>>, 2, TRUE, <<>>),
    \* a row whose sequence field is not an integer
    Row(<<12363>>, <<12363>>, <<Tag_n>>, 0, FALSE, <<>>)
}

\* no lexicon is being loaded
LoadIdle ==
    /\ jm_words = <<>>
    /\ jm_ids = <<>>
    /\ lookups = <<>>
    /\ lpc = "idle"
    /\ nrows = 0
    /\ bidx = 0
    /\ todo_spellings = {}
    /\ todo_readings = {}

\* load_jmdict before the first row
LoadInit ==
    /\ jm_words = <<>>
    /\ jm_ids = <<>>
    /\ lookups = <<>>
    /\ lpc = "ingest"
    /\ nrows = 0
    /\ bidx = 0
    /\ todo_spellings = {}
    /\ todo_readings = {}

\* one iteration of `for row in data`
IngestRow(row) ==
    /\ lpc = "ingest"
    /\ nrows < MaxRows
    /\ nrows' = nrows + 1
    /\ IF row.seq_is_int
       THEN /\ jm_words' = PutWord(jm_words, IngestedWord(jm_words, row))
            /\ jm_ids' = PutId(jm_ids, row.seq)
       ELSE UNCHANGED <<jm_words, jm_ids>>
    /\ UNCHANGED <<lookups, lpc, bidx, todo_spellings, todo_readings, loadOthers>>

\* the rows are read: _inject_custom_words, then the first word of
\* `for word_id, w in words.items()`
InjectCustomWords ==
    /\ lpc = "ingest"
    /\ jm_words' = InjectWords(jm_words, 1)
    /\ jm_ids' = InjectIds(jm_ids, 1)
    /\ lpc' = "build"
    /\ bidx' = 1
    /\ todo_spellings' = jm_words'[jm_ids'[1]].spellings
    /\ todo_readings' = jm_words'[jm_ids'[1]].readings
    /\ UNCHANGED <<lookups, nrows, loadOthers>>

\* one iteration of `for s in w.spellings`: a set is iterated in any order
BuildSpelling ==
    /\ lpc = "build"
    /\ \E s \in todo_spellings :
           /\ lookups' = AddSpelling(lookups, s, jm_ids[bidx])
           /\ todo_spellings' = todo_spellings \ {s}
    /\ UNCHANGED <<jm_words, jm_ids, lpc, nrows, bidx, todo_readings, loadOthers>>

\* one iteration of `for r in w.readings`, after the spellings
BuildReading ==
    /\ lpc = "build"
    /\ todo_spellings = {}
    /\ \E r \in todo_readings :
           /\ lookups' = AddReading(lookups, r, jm_ids[bidx])
           /\ todo_readings' = todo_readings \ {r}
    /\ UNCHANGED <<jm_words, jm_ids, lpc, nrows, bidx, todo_spellings, loadOthers>>

\* the next word of `for word_id, w in words.items()`, or the end of the
\* loop: JmDict(lookups, words) is returned
BuildNextWord ==
    /\ lpc = "build"
    /\ todo_spellings = {}
    /\ todo_readings = {}
    /\ IF bidx < Len(jm_ids)
       THEN /\ bidx' = bidx + 1
            /\ todo_spellings' = jm_words[jm_ids[bidx + 1]].spellings
            /\ todo_readings' = jm_words[jm_ids[bidx + 1]].readings
            /\ lpc' = lpc
       ELSE /\ lpc' = "done"
            /\ UNCHANGED <<bidx, todo_spellings, todo_readings>>
    /\ UNCHANGED <<jm_words, jm_ids, lookups, nrows, loadOthers>>

LoadNext ==
    \/ \E row \in TermBankRows : IngestRow(row)
    \/ InjectCustomWords
    \/ BuildSpelling
    \/ BuildReading
    \/ BuildNextWord

-----------------------------------------------------------------------------
(* Anchoring of one morpheme (parser_port.py: ParserPort._process_word) *)

MAX_DECONJ_ATTEMPTS == 3
MIN_TRIM_LENGTH == 2
HIRAGANA_OR_KATAKANA_START == 12352
HIRAGANA_OR_KATAKANA_END == 12543
LONG_VOWEL_MARK == 12540

\* the characters the fallbacks test: お, っ, ー
HONORIFIC_O == 12362
SMALL_TSU == 12387

\* Python None where a DeckWord is expected
NoAnchor == [anchored |-> FALSE]

\* Python None where a reading index is expected
NoIndex == -1

\* DeckWord
DeckWord(word_id, original_text, reading_index, pos_list) ==
    [word_id |-> word_id, original_text |-> original_text,
     reading_index |-> reading_index, parts_of_speech |-> pos_list]

\* WordInfo: the fields _process_word reads
WordInfo(t, part_of_speech, pos1, dictionary_form) ==
    [text |-> t, part_of_speech |-> part_of_speech, pos1 |-> pos1,
     dictionary_form |-> dictionary_form]

\* is_ascii_or_fullwidth_letter, on the first character
IsAsciiOrFullwidthLetter(s) ==
    LET c == s[1]
    IN  \/ c \in 97..122
        \/ c \in 65..90
        \/ c \in 65345..65370
        \/ c \in 65313..65338

\* _is_kana
IsKana(s) ==
    \A i \in 1..Len(s) :
        \/ s[i] \in HIRAGANA_OR_KATAKANA_START..HIRAGANA_OR_KATAKANA_END
        \/ s[i] = LONG_VOWEL_MARK

\* str.isdigit, on ASCII and fullwidth digits and the other characters of
\* the model (none of which is a digit)
IsDigitText(s) ==
    s # <<>> /\ \A i \in 1..Len(s) : s[i] \in (48..57) \cup (65296..65305)

\* lst.index(x), or NoIndex for ValueError
FirstIndex(lst, x) ==
    IF \E i \in 1..Len(lst) : lst[i] = x
    THEN (CHOOSE i \in 1..Len(lst) :
              lst[i] = x /\ \A j \in 1..(i - 1) : lst[j] # x) - 1
    ELSE NoIndex

\* _compute_reading_index on readings = list(jm.readings)
ComputeReadingIndex(readings, surface_or_reading) ==
    LET exact == FirstIndex(readings, surface_or_reading)
        hira_key == ToHiraganaPreserveLong(surface_or_reading)
        hira_readings == [i \in 1..Len(readings) |-> ToHiraganaPreserveLong(readings[i])]
        hira_key2 == ToHiraganaExpandLong(surface_or_reading)
        hira_readings2 == [i \in 1..Len(readings) |-> ToHiraganaExpandLong(readings[i])]
    IN  IF exact # NoIndex THEN exact
        ELSE IF FirstIndex(hira_readings, hira_key) # NoIndex
             THEN FirstIndex(hira_readings, hira_key)
             ELSE FirstIndex(hira_readings2, hira_key2)

\* the orders in which a set can be iterated: list(S)
Orders(S) ==
    {f \in [1..Cardinality(S) -> S] : \A i, j \in 1..Cardinality(S) : i # j => f[i] # f[j]}

\* deconjugate(text) to its end: processed when the frontier is empty
RECURSIVE DeconjugateFrom(_, _, _)
DeconjugateFrom(proc, nov, rs) ==
    IF nov = {} THEN proc
    ELSE DeconjugateFrom(proc \cup nov, NewNovel(nov, proc, rs), rs)

Deconjugate(t, rs) ==
    IF t = <<>> THEN {} ELSE DeconjugateFrom({}, {InitialForm(t)}, rs)

\* dict.get(key, [])
LookupsGet(lk, key) == IF key \in DOMAIN lk THEN lk[key] ELSE <<>>

\* [to_part_of_speech(p) for p in jw.parts_of_speech]
PosOf(jw) == {ToPartOfSpeech(jw.parts_of_speech[i]) : i \in 1..Len(jw.parts_of_speech)}

\* the elements of a list of numbers in ascending order: sorted(set(...))
RECURSIVE SortedIds(_)
SortedIds(S) ==
    IF S = {} THEN <<>>
    ELSE LET m == CHOOSE x \in S : \A y \in S : x <= y
         IN  <<m>> \o SortedIds(S \ {m})

\* the elements of a list, as a set
Range(lst) == {lst[i] : i \in 1..Len(lst)}

\* the word ids of cands whose word is loaded and has the part of speech
PosMatches(cands, part_of_speech) ==
    LET Match(wid) == wid \in DOMAIN jm_words /\ part_of_speech \in PosOf(jm_words[wid])
    IN  SelectSeq(cands, Match)

\* matches.sort(key=get_priority_score, reverse=True)[0]: the first of the
\* matches with the highest score
BestByPriority(matches, kana) ==
    LET score(wid) == GetPriorityScore(jm_words[wid].priorities,
                                       jm_words[wid].parts_of_speech, kana)
        k == CHOOSE i \in 1..Len(matches) :
                 /\ \A j \in 1..Len(matches) : score(matches[j]) <= score(matches[i])
                 /\ \A j \in 1..(i - 1) : score(matches[j]) < score(matches[i])
    IN  matches[k]

\* ParserPort._deconjugate_word: the DeckWord, or NoAnchor.  ro gives, for
\* every word, the order in which its readings set is listed.
DeconjugateWord(w, ro) ==
    IF IsDigitText(w.text) \/ (Len(w.text) = 1 /\ IsAsciiOrFullwidthLetter(w.text))
    THEN NoAnchor
    ELSE LET cands0 == LookupsGet(lookups, w.text)
             cands_h == LookupsGet(lookups, ToHiraganaPreserveLong(w.text))
             cands == IF cands_h # <<>>
                      THEN SortedIds(Range(cands0) \cup Range(cands_h))
                      ELSE cands0
             matches == PosMatches(cands, w.part_of_speech)
         IN  IF cands = <<>> THEN NoAnchor
             ELSE IF \A i \in 1..Len(cands) : cands[i] \notin DOMAIN jm_words
                  THEN NoAnchor
             ELSE IF matches = <<>> /\ cands[1] \notin DOMAIN jm_words THEN NoAnchor
             ELSE LET jm == IF matches # <<>>
                            THEN BestByPriority(matches, IsKana(w.text))
                            ELSE cands[1]
                      idx == ComputeReadingIndex(ro[jm], w.text)
                  IN  IF idx = NoIndex THEN NoAnchor
                      ELSE DeckWord(jm, w.text, idx, <<w.part_of_speech>>)

\* sorted(forms, key=lambda f: len(f.text), reverse=True): a stable sort
\* of the order the set is iterated in; n is the longest length left
RECURSIVE SortByLenDesc(_, _)
SortByLenDesc(forms, n) ==
    IF n < 0 THEN <<>>
    ELSE LET HasLen(f) == Len(f.text) = n
         IN  SelectSeq(forms, HasLen) \o SortByLenDesc(forms, n - 1)

\* candidates: (f.text, ids) of every form whose text has a lookup entry
RECURSIVE Candidates(_)
Candidates(forms) ==
    IF forms = <<>> THEN <<>>
    ELSE LET ids == LookupsGet(lookups, Head(forms).text)
         IN  (IF ids # <<>> THEN << <<Head(forms).text, ids>> >> ELSE <<>>)
                 \o Candidates(Tail(forms))

\* lift of _deconjugate_verb_or_adjective
Lift(key, base_dict, base_word) ==
    IF key = base_dict THEN 0 ELSE IF key = base_word THEN 1 ELSE 2

\* candidates.sort(key=lambda x: lift(x[0])): a stable sort
SortByLift(candidates, base_dict, base_word) ==
    LET L0(c) == Lift(c[1], base_dict, base_word) = 0
        L1(c) == Lift(c[1], base_dict, base_word) = 1
        L2(c) == Lift(c[1], base_dict, base_word) = 2
    IN  SelectSeq(candidates, L0) \o SelectSeq(candidates, L1) \o SelectSeq(candidates, L2)

\* matches: (word id, key) for every id of every candidate whose word has
\* the part of speech
RECURSIVE KeyMatches(_, _)
KeyMatches(candidates, part_of_speech) ==
    IF candidates = <<>> THEN <<>>
    ELSE LET key == Head(candidates)[1]
             ids == PosMatches(Head(candidates)[2], part_of_speech)
         IN  [i \in 1..Len(ids) |-> <<ids[i], key>>]
                 \o KeyMatches(Tail(candidates), part_of_speech)

\* reading index 1 instead of the default 0
DefaultIndex_One(idx) == IF idx = NoIndex THEN 1 ELSE idx

\* if idx is None: idx = 0
DefaultIndex(idx) == IF idx = NoIndex THEN 0 ELSE idx

\* ParserPort._deconjugate_verb_or_adjective: the DeckWord, or NoAnchor.
\* fo is the order in which the set deconjugate(hira) is iterated.
DeconjugateVerbOrAdjective(w, ro, fo) ==
    LET forms == SortByLenDesc(fo, Len(w.text) + 10)
        base_dict == ToHiraganaPreserveLong(IF w.dictionary_form # <<>>
                                            THEN w.dictionary_form ELSE w.text)
        base_word == ToHiraganaPreserveLong(w.text)
        candidates == SortByLift(Candidates(forms), base_dict, base_word)
        matches == KeyMatches(candidates, w.part_of_speech)
    IN  IF candidates = <<>> \/ matches = <<>> THEN NoAnchor
        ELSE LET best == matches[1]
                 idx == DefaultIndex(ComputeReadingIndex(ro[best[1]], best[2]))
             IN  DeckWord(best[1], w.text, idx, <<w.part_of_speech>>)

\* the loop `for alt in (Verb, IAdjective, NaAdjective)` of try_process,
\* from the k-th alternative on
AltPos == <<"Verb", "IAdjective", "NaAdjective">>

RECURSIVE TryAlt(_, _, _, _)
TryAlt(w, ro, fo, k) ==
    IF k > Len(AltPos) THEN NoAnchor
    ELSE LET dw2 == DeconjugateVerbOrAdjective([w EXCEPT !.part_of_speech = AltPos[k]],
                                               ro, fo)
         IN  IF dw2 # NoAnchor THEN dw2 ELSE TryAlt(w, ro, fo, k + 1)

\* try_process of _process_word
TryProcess(w, ro, fo) ==
    IF \/ w.part_of_speech \in {"Verb", "IAdjective", "Auxiliary", "NaAdjective"}
       \/ w.pos1 = "Adjectival"
    THEN LET dw == DeconjugateVerbOrAdjective(w, ro, fo)
         IN  IF dw # NoAnchor THEN dw ELSE DeconjugateWord(w, ro)
    ELSE LET dw == DeconjugateWord(w, ro)
         IN  IF dw # NoAnchor THEN dw ELSE TryAlt(w, ro, fo, 1)

\* which fallback transform applies to the text, if any
FallbackKind(t) ==
    IF /\ Len(t) > MIN_TRIM_LENGTH
       /\ \/ t[Len(t)] \in {SMALL_TSU, LONG_VOWEL_MARK}
          \/ (Len(t) >= MIN_TRIM_LENGTH /\ t[Len(t)] = t[Len(t) - 1])
    THEN "trim-last"
    ELSE IF StartsWith(t, <<HONORIFIC_O>>) THEN "drop-honorific"
    ELSE IF Contains(t, <<LONG_VOWEL_MARK>>) THEN "remove-long-marks"
    ELSE "none"

\* the text the fallback leaves in cur.text
FallbackText(t) ==
    CASE FallbackKind(t) = "trim-last" -> SubSeq(t, 1, Len(t) - 1)
      [] FallbackKind(t) = "drop-honorific" -> Tail(t)
      [] FallbackKind(t) = "remove-long-marks" -> Replace(t, <<LONG_VOWEL_MARK>>, <<>>)
      [] OTHER -> t

\* the loop going on whenever a fallback applied, without the cap
LoopContinues_Uncapped(n, kind) == kind # "none"

\* `continue` is taken and `while attempts < _MAX_DECONJ_ATTEMPTS` holds
LoopContinues(n, kind) == kind # "none" /\ n < MAX_DECONJ_ATTEMPTS

\* dw keeping the text it was anchored on
Returned_Anchored(dw, surface) == dw

\* dw.original_text = original_surface; return dw
Returned(dw, surface) == [dw EXCEPT !.original_text = surface]

\* load_jmdict on a list of rows, as one computation: words, their
\* insertion order, and the lookup table
RECURSIVE IngestRows(_, _)
IngestRows(words, rows) ==
    IF rows = <<>> THEN words
    ELSE IngestRows(IF Head(rows).seq_is_int
                    THEN PutWord(words, IngestedWord(words, Head(rows)))
                    ELSE words,
                    Tail(rows))

RECURSIVE IngestIds(_, _)
IngestIds(ids, rows) ==
    IF rows = <<>> THEN ids
    ELSE IngestIds(IF Head(rows).seq_is_int THEN PutId(ids, Head(rows).seq) ELSE ids,
                   Tail(rows))

LoadedWords(rows) == InjectWords(IngestRows(<<>>, rows), 1)

LoadedIds(rows) == InjectIds(IngestIds(<<>>, rows), 1)

\* `for s in w.spellings`, in one of the orders of the set.  The table
\* is an accumulator: `lk # lk` is never true and only makes the table
\* built so far a value before the next iteration starts
RECURSIVE AddSpellings(_, _, _)
AddSpellings(lk, S, word_id) ==
    IF S = {} \/ lk # lk THEN lk
    ELSE LET s == CHOOSE x \in S : TRUE
         IN  AddSpellings(AddSpelling(lk, s, word_id), S \ {s}, word_id)

\* `for r in w.readings`, in one of the orders of the set
RECURSIVE AddReadings(_, _, _)
AddReadings(lk, S, word_id) ==
    IF S = {} \/ lk # lk THEN lk
    ELSE LET r == CHOOSE x \in S : TRUE
         IN  AddReadings(AddReading(lk, r, word_id), S \ {r}, word_id)

\* `for word_id, w in words.items()`
RECURSIVE BuildLookups(_, _, _)
BuildLookups(lk, words, ids) ==
    IF ids = <<>> \/ lk # lk THEN lk
    ELSE BuildLookups(AddReadings(AddSpellings(lk, words[Head(ids)].spellings, Head(ids)),
                                  words[Head(ids)].readings, Head(ids)),
                      words, Tail(ids))

LoadedLookups(rows) == BuildLookups(<<>>, LoadedWords(rows), LoadedIds(rows))

\* the term bank of the anchoring model.  Characters: か 12363, カ 12459,
\* る 12427, く 12367, た 12383, ａ 65345
AnchorRows == <<
    \* カ / か, noun, word 1
    Row(<<12459>>, <<12363>>, <<Tag_n>>, 1, TRUE, <<Tok_ichi>>),
    \* かる, ichidan verb, word 2
    Row(<<12363, 12427>>, <<>>, << <<"v", "1">> >>, 2, TRUE, <<>>),
    \* かく, godan verb, word 3
    Row(<<12363, 12367>>, <<>>, << <<"v", "5", "k">> >>, 3, TRUE, <<>>),
    \* ａ (fullwidth), verb, word 4
    Row(<<65345>>, <<>>, << <<"v", "1">> >>, 4, TRUE, <<>>),
    \* a row without term and reading, word 5
    Row(<<>>, <<>>, <<Tag_n>>, 5, TRUE, <<>>),
    \* a row with a reading only: た, word 6
    Row(<<>>, <<12383>>, <<Tag_n>>, 6, TRUE, <<>>)
>>

\* the lexicon load_jmdict builds from the term bank
AnchorWords == LoadedWords(AnchorRows)

AnchorIds == LoadedIds(AnchorRows)

AnchorLookups == LoadedLookups(AnchorRows)

\* the rule table of the anchoring model: た -> る (v1) or く (v5k)
AnchorRuleFile == <<
    Rule("stdrule", None, << <<12427>>, <<12367>> >>, << <<12383>> >>,
         <<"v1", "v5k">>, <<"past">>, "past")
>>

\* the characters of a morpheme: お, か, カ, ー, た, a
AnchorAlphabet == {12362, 12363, 12459, 12540, 12383, 97}

\* the morphemes _process_word is called on
AnchorInputs ==
    {WordInfo(t, p, p1, d) : t \in SeqsUpTo(AnchorAlphabet, MaxAnchorLen) \ {<<>>},
                             p \in {"Noun", "Verb"},
                             p1 \in {"None_", "Adjectival"},
                             d \in {<<>>, <<12363, 12427>>}}

\* for every word, an order in which list(jm.readings) lists its readings
RECURSIVE ReadingOrders(_)
ReadingOrders(ids) ==
    IF ids = <<>> THEN {<<>>}
    ELSE {(Head(ids) :> o) @@ f : o \in Orders(jm_words[Head(ids)].readings),
                                  f \in ReadingOrders(Tail(ids))}

\* the orders in which the set deconjugate(hira) can be iterated
FormOrders(t) == Orders(Deconjugate(ToHiraganaExpandLong(t), rules))

\* _process_word is not running
AnchorIdle ==
    /\ w_in = WordInfo(<<>>, "Unknown", "None_", <<>>)
    /\ cur_w = WordInfo(<<>>, "Unknown", "None_", <<>>)
    /\ original_surface = <<>>
    /\ attempts = 0
    /\ tries = 0
    /\ fallback = "none"
    /\ applied = <<>>
    /\ apc = "idle"
    /\ ret = NoAnchor
    /\ run = 0
    /\ first_ret = NoAnchor

\* ParserPort.__init__ has loaded the rule table and the lexicon
ResourcesLoaded ==
    /\ dtext = <<>>
    /\ rules = AnchorRuleFile
    /\ dprocessed = {}
    /\ novel = {}
    /\ dpc = "idle"
    /\ round = 0
    /\ jm_words = AnchorWords
    /\ jm_ids = AnchorIds
    /\ lookups = AnchorLookups
    /\ lpc = "done"
    /\ nrows = Len(AnchorRows)
    /\ bidx = Len(AnchorIds)
    /\ todo_spellings = {}
    /\ todo_readings = {}

\* _process_word(w) up to the retry loop
AnchorInit ==
    /\ w_in \in AnchorInputs
    /\ cur_w = w_in
    /\ original_surface = w_in.text
    /\ attempts = 0
    /\ tries = 0
    /\ fallback = "none"
    /\ applied = <<>>
    /\ apc = "loop"
    /\ ret = NoAnchor
    /\ run = 1
    /\ first_ret = NoAnchor

\* one iteration of `while attempts < _MAX_DECONJ_ATTEMPTS`: try_process,
\* then either the return of the anchor or a fallback and `continue`, or
\* `break`; the return of None when the loop is left
AnchorAttempt ==
    /\ apc = "loop"
    /\ attempts' = attempts + 1
    /\ tries' = tries + 1
    /\ \E ro \in ReadingOrders(jm_ids), fo \in FormOrders(cur_w.text) :
           LET dw == TryProcess(cur_w, ro, fo)
           IN  IF dw # NoAnchor
               THEN /\ ret' = Returned(dw, original_surface)
                    /\ apc' = "returned"
                    /\ fallback' = "none"
                    /\ cur_w' = cur_w
                    /\ applied' = applied
               ELSE /\ fallback' = FallbackKind(cur_w.text)
                    /\ cur_w' = [cur_w EXCEPT !.text = FallbackText(cur_w.text)]
                    /\ applied' = IF FallbackKind(cur_w.text) = "none" THEN applied
                                  ELSE Append(applied, [kind |-> FallbackKind(cur_w.text),
                                                        before |-> cur_w.text,
                                                        after |-> FallbackText(cur_w.text)])
                    /\ apc' = IF LoopContinues(attempts', fallback')
                              THEN "loop" ELSE "returned"
                    /\ ret' = NoAnchor
    /\ UNCHANGED <<w_in, original_surface, run, first_ret, anchorOthers>>

\* _process_word is called on the same morpheme once more
AnchorRerun ==
    /\ apc = "returned"
    /\ run = 1
    /\ run' = 2
    /\ first_ret' = ret
    /\ cur_w' = w_in
    /\ attempts' = 0
    /\ tries' = 0
    /\ fallback' = "none"
    /\ applied' = <<>>
    /\ apc' = "loop"
    /\ ret' = NoAnchor
    /\ UNCHANGED <<w_in, original_surface, anchorOthers>>

AnchorNext == AnchorAttempt \/ AnchorRerun

-----------------------------------------------------------------------------
(* The merge pipeline of _analyzer.py.  A WordInfo object is a reference
   into the heap; a list of morphemes is a list of references, so that a
   pass that appends an object of its argument to its result, or writes a
   field of it, is seen as such.  Texts are sequences of code points. *)

MIN_PAIR_LENGTH == 2

MIN_TRIPLE_LENGTH == 3

DOUBLE_CHAR_LENGTH == 2

HIRAGANA_START == 12352

ANALYZER_KATAKANA_END == 12543

HALF_KATAKANA_START == 65382

HALF_KATAKANA_END == 65437

\* さん, ちゃん, くん
HONORIFICS_SUFFIXES == <<<<12373, 12435>>, <<12385, 12419, 12435>>, <<12367, 12435>>>>

\* the fields of a WordInfo the passes read or write (is_invalid, which no
\* pass touches, is left out)
WordInfoOf(t, part_of_speech, pos1, pos2, pos3, normalized_form, dictionary_form, reading) ==
    [text |-> t, part_of_speech |-> part_of_speech, pos1 |-> pos1, pos2 |-> pos2,
     pos3 |-> pos3, normalized_form |-> normalized_form,
     dictionary_form |-> dictionary_form, reading |-> reading]

\* WordInfo.has_section
HasSection(wi, s) == s \in {wi.pos1, wi.pos2, wi.pos3}

\* an element of the list a pass returns: the fields of the object, and
\* the position in the argument list of the object it is (0: a new object)
Item(rec, alias) == [rec |-> rec, alias |-> alias]

\* every element a new object: WordInfo(**x.__dict__) and the like
Fresh(recs) == [i \in 1..Len(recs) |-> Item(recs[i], 0)]

\* `return word_infos`: the objects of the argument, as they are
Same(ws) == [i \in 1..Len(ws) |-> Item(ws[i], i)]

\* the fields of the objects of a list
Values(h, lst) == [i \in 1..Len(lst) |-> h[lst[i]]]

special3 == {
    \* な の で
    <<<<12394>>, <<12398>>, <<12391>>, "Expression">>,
    \* で は ない
    <<<<12391>>, <<12399>>, <<12394, 12356>>, "Expression">>,
    \* それ で も
    <<<<12381, 12428>>, <<12391>>, <<12418>>, "Conjunction">>,
    \* なく なっ た
    <<<<12394, 12367>>, <<12394, 12387>>, <<12383>>, "Verb">>
}

special2 == {
    \* じゃ ない
    <<<<12376, 12419>>, <<12394, 12356>>, "Expression">>,
    \* ええ と
    <<<<12360, 12360>>, <<12392>>, "Interjection">>,
    \* どっち も
    <<<<12393, 12387, 12385>>, <<12418>>, "Expression">>,
    \* そう かもしれない
    <<<<12381, 12358>>, <<12363, 12418, 12375, 12428, 12394, 12356>>, "Expression">>,
    \* ファイル 名
    <<<<12501, 12449, 12452, 12523>>, <<21517>>, "Noun">>,
    \* に しろ
    <<<<12395>>, <<12375, 12429>>, "Expression">>,
    \* だ けど
    <<<<12384>>, <<12369, 12393>>, "Conjunction">>,
    \* だ が
    <<<<12384>>, <<12364>>, "Conjunction">>,
    \* で さえ
    <<<<12391>>, <<12373, 12360>>, "Expression">>,
    \* で すら
    <<<<12391>>, <<12377, 12425>>, "Expression">>,
    \* と いう
    <<<<12392>>, <<12356, 12358>>, "Expression">>,
    \* と か
    <<<<12392>>, <<12363>>, "Conjunction">>,
    \* だ から
    <<<<12384>>, <<12363, 12425>>, "Conjunction">>,
    \* これ まで
    <<<<12371, 12428>>, <<12414, 12391>>, "Expression">>,
    \* それ も
    <<<<12381, 12428>>, <<12418>>, "Conjunction">>,
    \* それ だけ
    <<<<12381, 12428>>, <<12384, 12369>>, "Noun">>,
    \* くせ に
    <<<<12367, 12379>>, <<12395>>, "Conjunction">>,
    \* の で
    <<<<12398>>, <<12391>>, "Particle">>,
    \* 誰 も
    <<<<35504>>, <<12418>>, "Expression">>,
    \* 誰 か
    <<<<35504>>, <<12363>>, "Expression">>,
    \* すぐ に
    <<<<12377, 12368>>, <<12395>>, "Adverb">>,
    \* なん か
    <<<<12394, 12435>>, <<12363>>, "Particle">>,
    \* だっ た
    <<<<12384, 12387>>, <<12383>>, "Expression">>,
    \* だっ たら
    <<<<12384, 12387>>, <<12383, 12425>>, "Conjunction">>,
    \* よう に
    <<<<12424, 12358>>, <<12395>>, "Expression">>,
    \* ん です
    <<<<12435>>, <<12391, 12377>>, "Expression">>,
    \* ん だ
    <<<<12435>>, <<12384>>, "Expression">>,
    \* です か
    <<<<12391, 12377>>, <<12363>>, "Expression">>
}

\* process_special_cases from position i (1-based) on
RECURSIVE SpecialCasesFrom(_, _)
SpecialCasesFrom(ws, i) ==
    IF i > Len(ws) THEN <<>>
    ELSE LET w1 == ws[i]
             m3 == IF i + 2 <= Len(ws)
                   THEN {e \in special3 : /\ w1.text = e[1]
                                          /\ ws[i + 1].text = e[2]
                                          /\ ws[i + 2].text = e[3]}
                   ELSE {}
             m2 == IF i + 1 <= Len(ws)
                   THEN {e \in special2 : w1.text = e[1] /\ ws[i + 1].text = e[2]}
                   ELSE {}
         IN  IF w1.part_of_speech = "Conjunction" /\ w1.text = <<12391>>
             THEN <<Item([w1 EXCEPT !.part_of_speech = "Particle"], 0)>>
                      \o SpecialCasesFrom(ws, i + 1)
             ELSE IF /\ i + 2 <= Len(ws)
                     /\ w1.dictionary_form = <<12377, 12427>>
                     /\ ws[i + 1].text = <<12390>>
                     /\ ws[i + 2].dictionary_form = <<12367, 12384, 12373, 12427>>
             THEN <<Item([w1 EXCEPT !.text = w1.text \o ws[i + 1].text \o ws[i + 2].text], 0)>>
                      \o SpecialCasesFrom(ws, i + 3)
             ELSE IF m3 # {}
             THEN <<Item([w1 EXCEPT !.text = w1.text \o ws[i + 1].text \o ws[i + 2].text,
                                    !.part_of_speech = (CHOOSE e \in m3 : TRUE)[4]], 0)>>
                      \o SpecialCasesFrom(ws, i + 3)
             ELSE IF m2 # {}
             THEN <<Item([w1 EXCEPT !.text = w1.text \o ws[i + 1].text,
                                    !.part_of_speech = (CHOOSE e \in m2 : TRUE)[3]], 0)>>
                      \o SpecialCasesFrom(ws, i + 2)
             ELSE IF w1.text = <<12391, 12375, 12423, 12358>>
             THEN <<Item([w1 EXCEPT !.part_of_speech = "Expression", !.pos1 = "None_",
                                    !.pos2 = "None_", !.pos3 = "None_"], 0)>>
                      \o SpecialCasesFrom(ws, i + 1)
             ELSE IF w1.text = <<12384, 12375>>
             THEN <<Item(WordInfoOf(<<12384>>, "Auxiliary", "None_", "None_", "None_", <<>>,
                                    <<12384>>, <<12384>>), 0),
                    Item(WordInfoOf(<<12375>>, "Conjunction", "None_", "None_", "None_", <<>>,
                                    <<12375>>, <<12375>>), 0)>>
                      \o SpecialCasesFrom(ws, i + 1)
             ELSE IF w1.text \in {<<12394>>, <<12395>>}
             THEN <<Item([w1 EXCEPT !.part_of_speech = "Particle"], 0)>>
                      \o SpecialCasesFrom(ws, i + 1)
             ELSE IF w1.text = <<12424, 12358>>
             THEN <<Item([w1 EXCEPT !.part_of_speech = "Noun"], 0)>>
                      \o SpecialCasesFrom(ws, i + 1)
             ELSE IF w1.text = <<21313, 20116>>
             THEN <<Item([w1 EXCEPT !.part_of_speech = "Numeral"], 0)>>
                      \o SpecialCasesFrom(ws, i + 1)
             ELSE <<Item(w1, i)>> \o SpecialCasesFrom(ws, i + 1)

\* process_special_cases
ProcessSpecialCases(ws) ==
    IF ws = <<>> THEN Same(ws) ELSE SpecialCasesFrom(ws, 1)

\* combine_prefixes: the loop from nxt = ws[i] on
RECURSIVE CombinePrefixesFrom(_, _, _)
CombinePrefixesFrom(cur, ws, i) ==
    IF i > Len(ws) THEN <<cur>>
    ELSE LET nxt == ws[i]
         IN  IF cur.part_of_speech = "Prefix" /\ cur.normalized_form # <<24481>>
             THEN CombinePrefixesFrom([nxt EXCEPT !.text = cur.text \o nxt.text], ws, i + 1)
             ELSE <<cur>> \o CombinePrefixesFrom(nxt, ws, i + 1)

CombinePrefixes(ws) ==
    IF Len(ws) < MIN_PAIR_LENGTH THEN Same(ws)
    ELSE Fresh(CombinePrefixesFrom(ws[1], ws, 2))

\* combine_amounts
RECURSIVE CombineAmountsFrom(_, _, _)
CombineAmountsFrom(cur, ws, i) ==
    IF i > Len(ws) THEN <<cur>>
    ELSE LET nxt == ws[i]
         IN  IF /\ HasSection(cur, "Amount") \/ HasSection(cur, "Numeral")
                /\ <<cur.text, nxt.text>> \in combos
             THEN CombineAmountsFrom([nxt EXCEPT !.text = cur.text \o nxt.text,
                                                 !.part_of_speech = "Noun"], ws, i + 1)
             ELSE <<cur>> \o CombineAmountsFrom(nxt, ws, i + 1)

CombineAmounts(ws) ==
    IF Len(ws) < MIN_PAIR_LENGTH THEN Same(ws)
    ELSE Fresh(CombineAmountsFrom(ws[1], ws, 2))

\* combine_tte
RECURSIVE CombineTteFrom(_, _, _)
CombineTteFrom(cur, ws, i) ==
    IF i > Len(ws) THEN <<cur>>
    ELSE LET nxt == ws[i]
         IN  IF EndsWith(cur.text, <<12387>>) /\ StartsWith(nxt.text, <<12390>>)
             THEN CombineTteFrom([cur EXCEPT !.text = cur.text \o nxt.text], ws, i + 1)
             ELSE <<cur>> \o CombineTteFrom(nxt, ws, i + 1)

CombineTte(ws) ==
    IF Len(ws) < MIN_PAIR_LENGTH THEN Same(ws)
    ELSE Fresh(CombineTteFrom(ws[1], ws, 2))

\* combine_verb_dependants
RECURSIVE CombineVerbDependantsFrom(_, _, _)
CombineVerbDependantsFrom(cur, ws, i) ==
    IF i > Len(ws) THEN <<cur>>
    ELSE LET nxt == ws[i]
         IN  IF HasSection(nxt, "Dependant") /\ cur.part_of_speech = "Verb"
             THEN CombineVerbDependantsFrom([cur EXCEPT !.text = cur.text \o nxt.text],
                                            ws, i + 1)
             ELSE <<cur>> \o CombineVerbDependantsFrom(nxt, ws, i + 1)

CombineVerbDependants(ws) ==
    IF Len(ws) < MIN_PAIR_LENGTH THEN Same(ws)
    ELSE Fresh(CombineVerbDependantsFrom(ws[1], ws, 2))

\* combine_verb_possible_dependants
RECURSIVE CombineVerbPossibleDependantsFrom(_, _, _)
CombineVerbPossibleDependantsFrom(cur, ws, i) ==
    IF i > Len(ws) THEN <<cur>>
    ELSE LET nxt == ws[i]
         IN  IF /\ HasSection(nxt, "PossibleDependant")
                /\ cur.part_of_speech = "Verb"
                /\ nxt.dictionary_form \in {<<24471, 12427>>, <<12377, 12427>>, <<12375, 12414, 12358>>, <<12362, 12427>>, <<12365, 12427>>,
                                            <<12371, 12394, 12377>>, <<12356, 12367>>, <<36016, 12358>>, <<12356, 12427>>, <<12394, 12356>>}
             THEN CombineVerbPossibleDependantsFrom(
                      [cur EXCEPT !.text = cur.text \o nxt.text], ws, i + 1)
             ELSE <<cur>> \o CombineVerbPossibleDependantsFrom(nxt, ws, i + 1)

CombineVerbPossibleDependants(ws) ==
    IF Len(ws) < MIN_PAIR_LENGTH THEN Same(ws)
    ELSE Fresh(CombineVerbPossibleDependantsFrom(ws[1], ws, 2))

\* combine_verb_dependants_suru
RECURSIVE CombineVerbDependantsSuruFrom(_, _)
CombineVerbDependantsSuruFrom(ws, i) ==
    IF i > Len(ws) THEN <<>>
    ELSE LET cur == ws[i]
         IN  IF /\ i + 1 <= Len(ws)
                /\ HasSection(cur, "PossibleSuru")
                /\ ws[i + 1].dictionary_form = <<12377, 12427>>
                /\ ws[i + 1].text \notin {<<12377, 12427>>, <<12375, 12394, 12356>>}
             THEN <<[cur EXCEPT !.text = cur.text \o ws[i + 1].text,
                                !.part_of_speech = "Verb"]>>
                      \o CombineVerbDependantsSuruFrom(ws, i + 2)
             ELSE <<cur>> \o CombineVerbDependantsSuruFrom(ws, i + 1)

CombineVerbDependantsSuru(ws) ==
    IF Len(ws) < MIN_PAIR_LENGTH THEN Same(ws)
    ELSE Fresh(CombineVerbDependantsSuruFrom(ws, 1))

\* combine_verb_dependants_teiru
RECURSIVE CombineVerbDependantsTeiruFrom(_, _)
CombineVerbDependantsTeiruFrom(ws, i) ==
    IF i > Len(ws) THEN <<>>
    ELSE LET cur == ws[i]
         IN  IF /\ i + 2 <= Len(ws)
                /\ cur.part_of_speech = "Verb"
                /\ ws[i + 1].dictionary_form = <<12390>>
                /\ ws[i + 2].dictionary_form = <<12356, 12427>>
             THEN <<[cur EXCEPT !.text = cur.text \o ws[i + 1].text \o ws[i + 2].text]>>
                      \o CombineVerbDependantsTeiruFrom(ws, i + 3)
             ELSE <<cur>> \o CombineVerbDependantsTeiruFrom(ws, i + 1)

CombineVerbDependantsTeiru(ws) ==
    IF Len(ws) < MIN_TRIPLE_LENGTH THEN Same(ws)
    ELSE Fresh(CombineVerbDependantsTeiruFrom(ws, 1))

\* combine_adverbial_particle
RECURSIVE CombineAdverbialParticleFrom(_, _, _)
CombineAdverbialParticleFrom(cur, ws, i) ==
    IF i > Len(ws) THEN <<cur>>
    ELSE LET nxt == ws[i]
         IN  IF /\ HasSection(nxt, "AdverbialParticle")
                /\ nxt.dictionary_form \in {<<12384, 12426>>, <<12383, 12426>>}
                /\ cur.part_of_speech = "Verb"
             THEN CombineAdverbialParticleFrom([cur EXCEPT !.text = cur.text \o nxt.text],
                                               ws, i + 1)
             ELSE <<cur>> \o CombineAdverbialParticleFrom(nxt, ws, i + 1)

CombineAdverbialParticle(ws) ==
    IF Len(ws) < MIN_PAIR_LENGTH THEN Same(ws)
    ELSE Fresh(CombineAdverbialParticleFrom(ws[1], ws, 2))

\* combine_conjunctive_particle: out holds the objects of the argument;
\* `prev.text += current.text` writes the last of them
RECURSIVE CombineConjunctiveParticleFrom(_, _, _)
CombineConjunctiveParticleFrom(res, ws, i) ==
    IF i > Len(ws) THEN res
    ELSE LET cur == ws[i]
             prev == res[Len(res)].rec
         IN  IF /\ HasSection(cur, "ConjunctionParticle")
                /\ cur.text \in {<<12390>>, <<12391>>, <<12385, 12419>>, <<12400>>}
                /\ prev.part_of_speech \in {"Verb", "IAdjective", "Auxiliary"}
             THEN CombineConjunctiveParticleFrom(
                      [res EXCEPT ![Len(res)].rec.text = prev.text \o cur.text], ws, i + 1)
             ELSE CombineConjunctiveParticleFrom(Append(res, Item(cur, i)), ws, i + 1)

CombineConjunctiveParticle(ws) ==
    IF Len(ws) < MIN_PAIR_LENGTH THEN Same(ws)
    ELSE CombineConjunctiveParticleFrom(<<Item(ws[1], 1)>>, ws, 2)

\* combine_auxiliary: as combine_conjunctive_particle, `prev.text +=
\* cur.text` writes an object of the argument
RECURSIVE CombineAuxiliaryFrom(_, _, _)
CombineAuxiliaryFrom(res, ws, i) ==
    IF i > Len(ws) THEN res
    ELSE LET cur == ws[i]
             prev == res[Len(res)].rec
             prev_conjugatable ==
                 \/ prev.part_of_speech \in {"Verb", "IAdjective", "NaAdjective", "Auxiliary"}
                 \/ HasSection(prev, "Adjectival")
             cur_not_na_or_ni == cur.text \notin {<<12394>>, <<12395>>}
             desu_sequence_allowed ==
                 \/ cur.dictionary_form # <<12391, 12377>>
                 \/ /\ prev.part_of_speech = "Verb"
                    /\ cur.dictionary_form = <<12391, 12377>>
                    /\ cur.text \in {<<12391, 12375>>, <<12391, 12375, 12383>>}
             cur_not_aux_form ==
                 cur.dictionary_form \notin {<<12425, 12375, 12356>>, <<12409, 12375>>, <<12424, 12358, 12384>>, <<12420, 12364, 12427>>}
             cur_not_disallowed == cur.text \notin {<<12394, 12425>>, <<12384, 12429, 12358>>}
         IN  IF cur.part_of_speech # "Auxiliary"
             THEN CombineAuxiliaryFrom(Append(res, Item(cur, i)), ws, i + 1)
             ELSE IF /\ prev_conjugatable
                     /\ cur_not_na_or_ni
                     /\ desu_sequence_allowed
                     /\ cur_not_aux_form
                     /\ cur_not_disallowed
             THEN CombineAuxiliaryFrom(
                      [res EXCEPT ![Len(res)].rec.text = prev.text \o cur.text], ws, i + 1)
             ELSE CombineAuxiliaryFrom(Append(res, Item(cur, i)), ws, i + 1)

CombineAuxiliary(ws) ==
    IF Len(ws) < MIN_PAIR_LENGTH THEN Same(ws)
    ELSE CombineAuxiliaryFrom(<<Item(ws[1], 1)>>, ws, 2)

\* combine_auxiliary_verb_stem
RECURSIVE CombineAuxiliaryVerbStemFrom(_, _, _)
CombineAuxiliaryVerbStemFrom(cur, ws, i) ==
    IF i > Len(ws) THEN <<cur>>
    ELSE LET nxt == ws[i]
         IN  IF /\ HasSection(nxt, "AuxiliaryVerbStem")
                /\ nxt.text \notin {<<12424, 12358, 12395>>, <<12424, 12358>>, <<12415, 12383, 12356>>}
                /\ ws[i - 1].part_of_speech \in {"Verb", "IAdjective"}
             THEN CombineAuxiliaryVerbStemFrom([cur EXCEPT !.text = cur.text \o nxt.text],
                                               ws, i + 1)
             ELSE <<cur>> \o CombineAuxiliaryVerbStemFrom(nxt, ws, i + 1)

CombineAuxiliaryVerbStem(ws) ==
    IF Len(ws) < MIN_PAIR_LENGTH THEN Same(ws)
    ELSE Fresh(CombineAuxiliaryVerbStemFrom(ws[1], ws, 2))

\* combine_suffix
RECURSIVE CombineSuffixFrom(_, _, _)
CombineSuffixFrom(cur, ws, i) ==
    IF i > Len(ws) THEN <<cur>>
    ELSE LET nxt == ws[i]
         IN  IF /\ nxt.part_of_speech = "Suffix" \/ HasSection(nxt, "Suffix")
                /\ \/ nxt.dictionary_form \in {<<12387, 12371>>, <<12373>>, <<12364, 12427>>}
                   \/ /\ nxt.dictionary_form = <<12425>>
                      /\ ws[i - 1].part_of_speech = "Pronoun"
             THEN CombineSuffixFrom([cur EXCEPT !.text = cur.text \o nxt.text], ws, i + 1)
             ELSE <<cur>> \o CombineSuffixFrom(nxt, ws, i + 1)

CombineSuffix(ws) ==
    IF Len(ws) < MIN_PAIR_LENGTH THEN Same(ws)
    ELSE Fresh(CombineSuffixFrom(ws[1], ws, 2))

\* combine_particles keeping only the first particle of a pair
CombinedParticles_FirstOnly(cur, nxt) ==
    IF cur.text = <<12395>> /\ nxt.text = <<12399>> THEN <<12395>>
    ELSE IF cur.text = <<12392>> /\ nxt.text = <<12399>> THEN <<12392>>
    ELSE IF cur.text = <<12391>> /\ nxt.text = <<12399>> THEN <<12391>>
    ELSE IF cur.text = <<12398>> /\ nxt.text = <<12395>> THEN <<12398>>
    ELSE <<>>

\* the `combined` of combine_particles, <<>> when there is none
CombinedParticles(cur, nxt) ==
    IF cur.text = <<12395>> /\ nxt.text = <<12399>> THEN <<12395, 12399>>
    ELSE IF cur.text = <<12392>> /\ nxt.text = <<12399>> THEN <<12392, 12399>>
    ELSE IF cur.text = <<12391>> /\ nxt.text = <<12399>> THEN <<12391, 12399>>
    ELSE IF cur.text = <<12398>> /\ nxt.text = <<12395>> THEN <<12398, 12395>>
    ELSE <<>>

\* combine_particles
RECURSIVE CombineParticlesFrom(_, _)
CombineParticlesFrom(ws, i) ==
    IF i > Len(ws) THEN <<>>
    ELSE LET cur == ws[i]
         IN  IF i + 1 <= Len(ws) /\ CombinedParticles(cur, ws[i + 1]) # <<>>
             THEN <<[cur EXCEPT !.text = CombinedParticles(cur, ws[i + 1])]>>
                      \o CombineParticlesFrom(ws, i + 2)
             ELSE <<cur>> \o CombineParticlesFrom(ws, i + 1)

CombineParticles(ws) ==
    IF Len(ws) < MIN_PAIR_LENGTH THEN Same(ws)
    ELSE Fresh(CombineParticlesFrom(ws, 1))

\* combine_final
RECURSIVE CombineFinalFrom(_, _, _)
CombineFinalFrom(cur, ws, i) ==
    IF i > Len(ws) THEN <<cur>>
    ELSE LET nxt == ws[i]
         IN  IF nxt.text = <<12400>> /\ ws[i - 1].part_of_speech = "Verb"
             THEN CombineFinalFrom([cur EXCEPT !.text = cur.text \o nxt.text], ws, i + 1)
             ELSE <<cur>> \o CombineFinalFrom(nxt, ws, i + 1)

CombineFinal(ws) ==
    IF Len(ws) < MIN_PAIR_LENGTH THEN Same(ws)
    ELSE Fresh(CombineFinalFrom(ws[1], ws, 2))

\* str.removesuffix
RemoveSuffix(s, h) == IF EndsWith(s, h) /\ h # <<>> THEN SubSeq(s, 1, Len(s) - Len(h)) ELSE s

\* the body of `for w in word_infos` of separate_suffix_honorifics: the
\* first suffix of HONORIFICS_SUFFIXES, from the k-th on, that splits w
RECURSIVE SeparateOne(_, _)
SeparateOne(wi, k) ==
    IF k > Len(HONORIFICS_SUFFIXES) THEN <<wi>>
    ELSE LET h == HONORIFICS_SUFFIXES[k]
         IN  IF /\ EndsWith(wi.text, h)
                /\ Len(wi.text) > Len(h)
                /\ HasSection(wi, "PersonName") \/ HasSection(wi, "ProperNoun")
             THEN <<[wi EXCEPT !.text = SubSeq(wi.text, 1, Len(wi.text) - Len(h)),
                               !.dictionary_form = RemoveSuffix(wi.dictionary_form, h)],
                    WordInfoOf(h, "Suffix", "None_", "None_", "None_", <<>>, h, h)>>
             ELSE SeparateOne(wi, k + 1)

RECURSIVE SeparateFrom(_, _)
SeparateFrom(ws, i) ==
    IF i > Len(ws) THEN <<>> ELSE SeparateOne(ws[i], 1) \o SeparateFrom(ws, i + 1)

\* separate_suffix_honorifics
SeparateSuffixHonorifics(ws) ==
    IF Len(ws) < MIN_PAIR_LENGTH THEN Same(ws)
    ELSE Fresh(SeparateFrom(ws, 1))

\* _is_kana_str
IsKanaStr(s) ==
    \A i \in 1..Len(s) :
        \/ s[i] \in HIRAGANA_START..ANALYZER_KATAKANA_END
        \/ s[i] \in HALF_KATAKANA_START..HALF_KATAKANA_END

\* the part-of-speech rewrites of filter_misparse
MisparsePos(ww) ==
    LET p1 == IF ww.text \in {<<12394, 12435>>, <<12501, 12531>>, <<12405, 12435>>} THEN "Prefix" ELSE ww.part_of_speech
        p2 == IF ww.text = <<12381, 12358>> THEN "Adverb" ELSE p1
        p3 == IF ww.text = <<12362, 12356>> THEN "Interjection" ELSE p2
    IN  IF ww.text = <<12388>> /\ p3 = "Suffix" THEN "Counter" ELSE p3

\* the morphemes filter_misparse drops
IsMisparse(ww) ==
    LET is_loose_kana ==
            \/ Len(ww.text) = 1 /\ IsKanaStr(ww.text)
            \/ /\ Len(ww.text) = DOUBLE_CHAR_LENGTH
               /\ IsKanaStr(<<ww.text[1]>>)
               /\ ww.text[2] = 12540
            \/ ww.text \in {<<12456, 12490>>, <<12360, 12394>>}
    IN  \/ ww.text \in {<<12381>>, <<12540>>, <<12427>>, <<12414>>, <<12405>>, <<12385>>, <<12411>>, <<12377>>, <<12376>>, <<12394, 12373>>}
        \/ ww.part_of_speech = "Noun" /\ is_loose_kana

\* filter_misparse
RECURSIVE FilterFrom(_, _)
FilterFrom(ws, i) ==
    IF i > Len(ws) THEN <<>>
    ELSE LET ww == [ws[i] EXCEPT !.part_of_speech = MisparsePos(ws[i])]
         IN  (IF IsMisparse(ww) THEN <<>> ELSE <<ww>>) \o FilterFrom(ws, i + 1)

FilterMisparse(ws) == Fresh(FilterFrom(ws, 1))

\* the list a pass returns, written to the heap: a new object gets the
\* next free reference, an object of the argument keeps its own
RECURSIVE CommitFrom(_, _, _, _, _, _)
CommitFrom(h, lst, its, k, res, free) ==
    IF k > Len(its) THEN [heap |-> h, list |-> res]
    ELSE IF its[k].alias = 0
         THEN CommitFrom((free :> its[k].rec) @@ h, lst, its, k + 1, Append(res, free),
                         free + 1)
         ELSE CommitFrom([h EXCEPT ![lst[its[k].alias]] = its[k].rec], lst, its, k + 1,
                         Append(res, lst[its[k].alias]), free)

\* the references given out so far: those of the argument of
\* apply_pipeline and of the results of the passes
RefsUsed == Range(word_infos) \cup UNION {Range(passes[k].result) : k \in 1..Len(passes)}

\* the first reference not given out yet
FreeRef == IF RefsUsed = {} THEN 1 ELSE 1 + CHOOSE a \in RefsUsed : \A b \in RefsUsed : b <= a

Commit(h, lst, its) == CommitFrom(h, lst, its, 1, <<>>, FreeRef)

\* the heap without the objects that nothing refers to any more
Reachable(h, live) == [a \in DOMAIN h \cap live |-> h[a]]

\* the passes of apply_pipeline in the order of the calls, with the order
\* of two calls exchanged
Passes_Swapped ==
    <<"specialCases", "combinePrefixes", "combineAmounts", "combineTte",
      "combineAuxiliaryVerbStem", "combineAdverbialParticle", "combineSuffix",
      "combineAuxiliary", "combineVerbDependants", "combineVerbPossibleDependants",
      "combineVerbDependantsSuru", "combineVerbDependantsTeiru",
      "combineParticles", "combineConjunctiveParticle", "combineFinal",
      "separateSuffixHonorifics", "filterMisparse">>

\* the passes of apply_pipeline in the order of the calls
Passes ==
    <<"specialCases", "combinePrefixes", "combineAmounts", "combineTte",
      "combineAuxiliaryVerbStem", "combineAdverbialParticle", "combineSuffix",
      "combineAuxiliary", "combineVerbDependants", "combineVerbPossibleDependants",
      "combineVerbDependantsSuru", "combineVerbDependantsTeiru",
      "combineConjunctiveParticle", "combineParticles", "combineFinal",
      "separateSuffixHonorifics", "filterMisparse">>

\* the function each pass name stands for
PassItems(name, ws) ==
    CASE name = "specialCases" -> ProcessSpecialCases(ws)
      [] name = "combinePrefixes" -> CombinePrefixes(ws)
      [] name = "combineAmounts" -> CombineAmounts(ws)
      [] name = "combineTte" -> CombineTte(ws)
      [] name = "combineAuxiliaryVerbStem" -> CombineAuxiliaryVerbStem(ws)
      [] name = "combineAdverbialParticle" -> CombineAdverbialParticle(ws)
      [] name = "combineSuffix" -> CombineSuffix(ws)
      [] name = "combineAuxiliary" -> CombineAuxiliary(ws)
      [] name = "combineVerbDependants" -> CombineVerbDependants(ws)
      [] name = "combineVerbPossibleDependants" -> CombineVerbPossibleDependants(ws)
      [] name = "combineVerbDependantsSuru" -> CombineVerbDependantsSuru(ws)
      [] name = "combineVerbDependantsTeiru" -> CombineVerbDependantsTeiru(ws)
      [] name = "combineConjunctiveParticle" -> CombineConjunctiveParticle(ws)
      [] name = "combineParticles" -> CombineParticles(ws)
      [] name = "combineFinal" -> CombineFinal(ws)
      [] name = "separateSuffixHonorifics" -> SeparateSuffixHonorifics(ws)
      [] name = "filterMisparse" -> FilterMisparse(ws)

\* the morphemes of the pipeline model, as the analyzer tags them
\* で, conjunction
M_de_conj == WordInfoOf(<<12391>>, "Conjunction", "None_", "None_", "None_", <<12391>>, <<12391>>, <<12487>>)
\* で, case particle
M_de == WordInfoOf(<<12391>>, "Particle", "CaseMarkingParticle", "None_", "None_", <<12391>>, <<12391>>, <<12487>>)
\* は, binding particle
M_ha == WordInfoOf(<<12399>>, "Particle", "BindingParticle", "None_", "None_", <<12399>>, <<12399>>, <<12495>>)
\* ない, auxiliary
M_nai == WordInfoOf(<<12394, 12356>>, "Auxiliary", "None_", "None_", "None_", <<12394, 12356>>, <<12394, 12356>>, <<12490, 12452>>)
\* だし
M_dashi == WordInfoOf(<<12384, 12375>>, "Conjunction", "None_", "None_", "None_", <<12384, 12375>>, <<12384, 12375>>, <<12480, 12471>>)
\* でしょう, auxiliary of です
M_deshou == WordInfoOf(<<12391, 12375, 12423, 12358>>, "Auxiliary", "Common", "None_", "None_", <<12391, 12377>>, <<12391, 12377>>, <<12487, 12471, 12519, 12454>>)
\* の, particle
M_no == WordInfoOf(<<12398>>, "Particle", "CaseMarkingParticle", "None_", "None_", <<12398>>, <<12398>>, <<12494>>)
\* 食べ, verb 食べる
M_tabe == WordInfoOf(<<39135, 12409>>, "Verb", "Common", "None_", "None_", <<39135, 12409, 12427>>, <<39135, 12409, 12427>>, <<12479, 12505>>)
\* て, conjunctive particle
M_te == WordInfoOf(<<12390>>, "Particle", "ConjunctionParticle", "None_", "None_", <<12390>>, <<12390>>, <<12486>>)
\* い, verb いる, possibly dependant
M_i == WordInfoOf(<<12356>>, "Verb", "PossibleDependant", "None_", "None_", <<23621, 12427>>, <<12356, 12427>>, <<12452>>)
\* た, auxiliary
M_ta == WordInfoOf(<<12383>>, "Auxiliary", "None_", "None_", "None_", <<12383>>, <<12383>>, <<12479>>)
\* 勉強, noun that takes する
M_benkyou == WordInfoOf(<<21193, 24375>>, "Noun", "CommonNoun", "PossibleSuru", "None_", <<21193, 24375>>, <<21193, 24375>>, <<12505, 12531, 12461, 12519, 12454>>)
\* し, verb する
M_shi == WordInfoOf(<<12375>>, "Verb", "PossibleDependant", "None_", "None_", <<28858, 12427>>, <<12377, 12427>>, <<12471>>)
\* ください, verb くださる
M_kudasai == WordInfoOf(<<12367, 12384, 12373, 12356>>, "Verb", "PossibleDependant", "None_", "None_", <<19979, 12373, 12427>>, <<12367, 12384, 12373, 12427>>, <<12463, 12480, 12469, 12452>>)
\* お, prefix
M_o == WordInfoOf(<<12362>>, "Prefix", "None_", "None_", "None_", <<12362>>, <<12362>>, <<12458>>)
\* 一, numeral
M_ichi == WordInfoOf(<<19968>>, "Noun", "Numeral", "None_", "None_", <<19968>>, <<19968>>, <<12452, 12481>>)
\* つ, counter suffix
M_tsu == WordInfoOf(<<12388>>, "Suffix", "CommonNoun", "Counter", "None_", <<12388>>, <<12388>>, <<12484>>)
\* 田中さん, a person's name
M_tanakasan == WordInfoOf(<<30000, 20013, 12373, 12435>>, "Noun", "ProperNoun", "PersonName", "None_", <<30000, 20013, 12373, 12435>>, <<30000, 20013, 12373, 12435>>, <<12479, 12490, 12459, 12469, 12531>>)
\* 行っ, verb 行く
M_itt == WordInfoOf(<<34892, 12387>>, "Verb", "PossibleDependant", "None_", "None_", <<34892, 12367>>, <<34892, 12367>>, <<12452, 12483>>)
\* そう, auxiliary verb stem
M_sou == WordInfoOf(<<12381, 12358>>, "NominalAdjective", "AuxiliaryVerbStem", "None_", "None_", <<12381, 12358>>, <<12381, 12358>>, <<12477, 12454>>)
\* たり, adverbial particle
M_tari == WordInfoOf(<<12383, 12426>>, "Particle", "AdverbialParticle", "None_", "None_", <<12383, 12426>>, <<12383, 12426>>, <<12479, 12522>>)
\* さ, suffix
M_sa == WordInfoOf(<<12373>>, "Suffix", "CommonNoun", "None_", "None_", <<12373>>, <<12373>>, <<12469>>)
\* ば, particle
M_ba == WordInfoOf(<<12400>>, "Particle", "None_", "None_", "None_", <<12400>>, <<12400>>, <<12496>>)
\* こと, dependant noun
M_koto == WordInfoOf(<<12371, 12392>>, "Noun", "Dependant", "None_", "None_", <<20107>>, <<12371, 12392>>, <<12467, 12488>>)
\* に, auxiliary
M_ni == WordInfoOf(<<12395>>, "Auxiliary", "None_", "None_", "None_", <<12384>>, <<12384>>, <<12491>>)
\* か, noun
M_ka == WordInfoOf(<<12363>>, "Noun", "CommonNoun", "None_", "None_", <<34442>>, <<12363>>, <<12459>>)
\* 御, prefix with the normalized form 御
M_go == WordInfoOf(<<24481>>, "Prefix", "None_", "None_", "None_", <<24481>>, <<24481>>, <<12468>>)
\* よう, auxiliary verb stem
M_you == WordInfoOf(<<12424, 12358>>, "NominalAdjective", "AuxiliaryVerbStem", "None_", "None_", <<27096>>, <<12424, 12358>>, <<12520, 12454>>)

\* the vocabularies the morpheme lists are drawn from
PipelineVocabularies == {
    {M_de_conj, M_de, M_ha, M_nai},
    {M_dashi, M_deshou, M_no, M_de},
    {M_tabe, M_te, M_i, M_ta},
    {M_benkyou, M_shi, M_te, M_kudasai},
    {M_o, M_ichi, M_tsu, M_tanakasan},
    {M_itt, M_sou, M_tari, M_te},
    {M_tabe, M_sa, M_ba, M_koto},
    {M_ni, M_ka, M_go, M_you}
}

\* the lists apply_pipeline is called on
PipelineInputs == UNION {SeqsUpTo(V, MaxMorphemes) : V \in PipelineVocabularies}

\* the contents load_amount_combinations() can have: none, or 一 + つ
AmountData == {{}, {<<<<19968>>, <<12388>>>>}}

\* apply_pipeline is not running
PipeIdle ==
    /\ word_infos = <<>>
    /\ morphemes_only = FALSE
    /\ combos = {}
    /\ heap = <<>>
    /\ pw = <<>>
    /\ passes = <<>>
    /\ in_heap = <<>>
    /\ ppc = "idle"
    /\ pipe_ret = <<>>

\* apply_pipeline(word_infos, morphemes_only=...) is called; `w = word_infos`
PipeInit ==
    /\ \E ws \in PipelineInputs :
           /\ heap = ws
           /\ word_infos = [i \in 1..Len(ws) |-> i]
    /\ morphemes_only \in BOOLEAN
    /\ combos \in AmountData
    /\ pw = word_infos
    /\ passes = <<>>
    /\ in_heap = heap
    /\ ppc = "run"
    /\ pipe_ret = <<>>

\* `if morphemes_only: return word_infos`
ReturnMorphemes ==
    /\ ppc = "run"
    /\ morphemes_only
    /\ ppc' = "returned"
    /\ pipe_ret' = word_infos
    /\ UNCHANGED <<word_infos, morphemes_only, combos, heap, pw, passes, in_heap, pipeOthers>>

\* `w = <pass>(w)`, for the pass that is next in apply_pipeline; the last
\* one is `return filter_misparse(w)`
Call(name) ==
    /\ ppc = "run"
    /\ ~morphemes_only
    /\ Len(passes) < Len(Passes)
    /\ Passes[Len(passes) + 1] = name
    /\ \E r \in {Commit(heap, pw, PassItems(name, Values(heap, pw)))} :
           /\ heap' = Reachable(r.heap, Range(word_infos) \cup Range(pw) \cup Range(r.list))
           /\ pw' = r.list
           /\ passes' = Append(passes, [name |-> name, arg |-> pw, result |-> r.list])
           /\ IF Len(passes) + 1 = Len(Passes)
              THEN ppc' = "returned" /\ pipe_ret' = r.list
              ELSE ppc' = "run" /\ pipe_ret' = pipe_ret
    /\ in_heap' = heap
    /\ UNCHANGED <<word_infos, morphemes_only, combos, pipeOthers>>

SpecialCasesPass == Call("specialCases")

CombinePrefixesPass == Call("combinePrefixes")

CombineAmountsPass == Call("combineAmounts")

CombineTtePass == Call("combineTte")

CombineAuxiliaryVerbStemPass == Call("combineAuxiliaryVerbStem")

CombineAdverbialParticlePass == Call("combineAdverbialParticle")

CombineSuffixPass == Call("combineSuffix")

CombineAuxiliaryPass == Call("combineAuxiliary")

CombineVerbDependantsPass == Call("combineVerbDependants")

CombineVerbPossibleDependantsPass == Call("combineVerbPossibleDependants")

CombineVerbDependantsSuruPass == Call("combineVerbDependantsSuru")

CombineVerbDependantsTeiruPass == Call("combineVerbDependantsTeiru")

CombineConjunctiveParticlePass == Call("combineConjunctiveParticle")

CombineParticlesPass == Call("combineParticles")

CombineFinalPass == Call("combineFinal")

SeparateSuffixHonorificsPass == Call("separateSuffixHonorifics")

FilterMisparsePass == Call("filterMisparse")

PipeNext ==
    \/ ReturnMorphemes
    \/ SpecialCasesPass
    \/ CombinePrefixesPass
    \/ CombineAmountsPass
    \/ CombineTtePass
    \/ CombineAuxiliaryVerbStemPass
    \/ CombineAdverbialParticlePass
    \/ CombineSuffixPass
    \/ CombineAuxiliaryPass
    \/ CombineVerbDependantsPass
    \/ CombineVerbPossibleDependantsPass
    \/ CombineVerbDependantsSuruPass
    \/ CombineVerbDependantsTeiruPass
    \/ CombineConjunctiveParticlePass
    \/ CombineParticlesPass
    \/ CombineFinalPass
    \/ SeparateSuffixHonorificsPass
    \/ FilterMisparsePass

-----------------------------------------------------------------------------
(* Specifications *)

\* segmentation of one text with one list of anchored words
TokSpecInit == TokInit /\ DecIdle /\ PrioIdle /\ FoldIdle /\ PosIdle /\ LoadIdle
    /\ AnchorIdle /\ PipeIdle

TokSpec == TokSpecInit /\ [][TokNext]_vars

\* deconjugation of one text under one rule table
DecSpecInit == DecInit /\ TokIdle /\ PrioIdle /\ FoldIdle /\ PosIdle /\ LoadIdle
    /\ AnchorIdle /\ PipeIdle

DecSpec == DecSpecInit /\ [][DecNext]_vars

\* the loading of the priority tokens of one word
PrioSpecInit == PrioInit /\ TokIdle /\ DecIdle /\ FoldIdle /\ PosIdle /\ LoadIdle
    /\ AnchorIdle /\ PipeIdle

PrioSpec == PrioSpecInit /\ [][PrioNext]_vars

\* width folding of one string
WidthSpecInit == WidthInit /\ TokIdle /\ DecIdle /\ PrioIdle /\ PosIdle /\ LoadIdle
    /\ AnchorIdle /\ PipeIdle

WidthSpec == WidthSpecInit /\ [][WidthNext]_vars

\* kana folding of one string
KanaSpecInit == KanaInit /\ TokIdle /\ DecIdle /\ PrioIdle /\ PosIdle /\ LoadIdle
    /\ AnchorIdle /\ PipeIdle

KanaSpec == KanaSpecInit /\ [][KanaNext]_vars

\* the decoders on every string of the model
PosSpecInit == PosInit /\ TokIdle /\ DecIdle /\ PrioIdle /\ FoldIdle /\ LoadIdle
    /\ AnchorIdle /\ PipeIdle

PosSpec == PosSpecInit /\ [][PosNext]_vars

\* one load of the lexicon from up to MaxRows rows
LoadSpecInit == LoadInit /\ TokIdle /\ DecIdle /\ PrioIdle /\ FoldIdle /\ PosIdle
    /\ AnchorIdle /\ PipeIdle

LoadSpec == LoadSpecInit /\ [][LoadNext]_vars

\* _process_word on one morpheme, twice
AnchorSpecInit == ResourcesLoaded /\ AnchorInit /\ TokIdle /\ PrioIdle /\ FoldIdle /\ PosIdle
    /\ PipeIdle

AnchorSpec == AnchorSpecInit /\ [][AnchorNext]_vars

\* a term bank whose rows are not in the order of their ids.  Characters:
\* a 97, ａ 65345, カ 12459, か 12363, ー 12540, あ 12354, 1 49
NounRows == <<
    \* aカー / ａかあ, noun, word 9
    Row(<<97, 12459, 12540>>, <<65345, 12363, 12354>>, <<Tag_n>>, 9, TRUE, <<>>),
    \* aカー / ａかあ, noun, word 3
    Row(<<97, 12459, 12540>>, <<65345, 12363, 12354>>, <<Tag_n>>, 3, TRUE, <<>>),
    \* カ / か, noun, word 1
    Row(<<12459>>, <<12363>>, <<Tag_n>>, 1, TRUE, <<>>),
    \* か, noun, word 2, with a priority
    Row(<<12363>>, <<>>, <<Tag_n>>, 2, TRUE, <<Tok_ichi>>),
    \* 1, noun, word 4
    Row(<<49>>, <<>>, <<Tag_n>>, 4, TRUE, <<>>),
    \* a, noun, word 5
    Row(<<97>>, <<>>, <<Tag_n>>, 5, TRUE, <<>>)
>>

NounWords == LoadedWords(NounRows)

NounIds == LoadedIds(NounRows)

NounLookups == LoadedLookups(NounRows)

\* the characters of a morpheme: a, ａ, カ, か, ー, 1
NounAlphabet == {97, 65345, 12459, 12363, 12540, 49}

\* the morphemes the noun strategy is tried on
NounInputs ==
    {WordInfo(t, p, "None_", <<>>) : t \in SeqsUpTo(NounAlphabet, MaxAnchorLen) \ {<<>>},
                                     p \in {"Noun", "Verb"}}

\* ParserPort.__init__ has loaded the rule table and the NounRows lexicon
NounResourcesLoaded ==
    /\ dtext = <<>>
    /\ rules = AnchorRuleFile
    /\ dprocessed = {}
    /\ novel = {}
    /\ dpc = "idle"
    /\ round = 0
    /\ jm_words = NounWords
    /\ jm_ids = NounIds
    /\ lookups = NounLookups
    /\ lpc = "done"
    /\ nrows = Len(NounRows)
    /\ bidx = Len(NounIds)
    /\ todo_spellings = {}
    /\ todo_readings = {}

NounInit ==
    /\ w_in \in NounInputs
    /\ cur_w = w_in
    /\ original_surface = w_in.text
    /\ attempts = 0
    /\ tries = 0
    /\ fallback = "none"
    /\ applied = <<>>
    /\ apc = "loop"
    /\ ret = NoAnchor
    /\ run = 1
    /\ first_ret = NoAnchor

\* _process_word of one morpheme over the NounRows lexicon
NounSpecInit == NounResourcesLoaded /\ NounInit /\ TokIdle /\ PrioIdle /\ FoldIdle /\ PosIdle
    /\ PipeIdle

NounSpec == NounSpecInit /\ [][AnchorNext]_vars

\* apply_pipeline on one list of morphemes
PipeSpecInit == PipeInit /\ TokIdle /\ DecIdle /\ PrioIdle /\ FoldIdle /\ PosIdle /\ LoadIdle
    /\ AnchorIdle

PipeSpec == PipeSpecInit /\ [][PipeNext]_vars

-----------------------------------------------------------------------------
(* Tokenizer properties, under TokSpec *)

\* C1. Concatenation law: whatever anchored words were produced for the
\* text, located or not, the tokens parse_text_tokens returns concatenate
\* to exactly the text.
C1_Concatenation == tpc = "done" => Join(tokens) = text

\* a finished run in which one anchored word was located and one was not
C1_Witness ==
    /\ tpc = "done"
    /\ Len(processed) = 2
    /\ Len(out) = 1
    /\ Len(tokens) >= 2

\* C2. Monotonicity: each token starts at or after the end of the token
\* before it, and every token, anchored ones included, is the slice of the
\* text at the position it was emitted for.
C2_Monotonic ==
    /\ \A k \in 1..(Len(tokens) - 1) : starts[k + 1] >= starts[k] + Len(tokens[k])
    /\ \A k \in 1..Len(tokens) :
           Slice(text, starts[k], starts[k] + Len(tokens[k])) = tokens[k]

\* two anchored tokens with a gap token between them
C2_Witness ==
    /\ tpc = "done"
    /\ Len(out) = 2
    /\ Len(tokens) = 3
    /\ starts[2] < out[2][2]

\* C3. When no anchored word is located, the result is the empty list for
\* the empty text and the one-element list [text] otherwise; and no token
\* of any result is empty.
C3_NoAnchors ==
    /\ (tpc = "done" /\ out = <<>>) =>
           tokens = (IF text = <<>> THEN <<>> ELSE <<text>>)
    /\ \A k \in 1..Len(tokens) : tokens[k] # <<>>

\* a finished run on a non-empty text whose anchored words all failed to
\* be located
C3_Witness ==
    /\ tpc = "done"
    /\ out = <<>>
    /\ processed # <<>>
    /\ text # <<>>
    /\ tokens = <<text>>

\* whether w occurs in t at or after offset cur
OccursFrom(t, w, cur) == \E i \in cur..Len(t) : MatchAt(t, w, i)

\* C4. Drop rule: in a step of the locating loop, a word with no occurrence
\* at or after the cursor adds no entry and leaves the cursor where it was;
\* a word with one is recorded at its earliest occurrence at or after the
\* cursor, and the cursor moves to just past it.
C4_DropRule ==
    [][(tpc = "locate" /\ widx <= Len(processed)) =>
         LET w == processed[widx]
         IN  IF OccursFrom(text, w, wcurrent)
             THEN /\ Len(out') = Len(out) + 1
                  /\ SubSeq(out', 1, Len(out)) = out
                  /\ LET pos == out'[Len(out')][2]
                     IN  /\ out'[Len(out')][1] = w
                         /\ pos >= wcurrent
                         /\ MatchAt(text, w, pos)
                         /\ \A j \in wcurrent..(pos - 1) : ~MatchAt(text, w, j)
                         /\ wcurrent' = pos + Len(w)
             ELSE /\ out' = out
                  /\ wcurrent' = wcurrent]_vars

\* the first word was dropped and the second, a different word, was then
\* located past the start of the text
C4_Witness ==
    /\ tpc = "emit"
    /\ Len(processed) = 2
    /\ processed[1] # processed[2]
    /\ Len(out) = 1
    /\ out[1][1] = processed[2]
    /\ out[1][2] > 0

-----------------------------------------------------------------------------
(* Deconjugator properties, under DecSpec *)

\* C5. Cycle freedom: for every rule table and every input, every form the
\* deconjugator holds is the initial form or has a text other than the
\* input, whichever rule kind produced it, substitution included.
C5_CycleFreedom ==
    \A f \in dprocessed \cup novel : f.text # dtext \/ f = InitialForm(dtext)

\* C6. Boundedness: for every rule table and every input, every form of the
\* returned set has at most len(input) + 10 characters and at most
\* len(input) + 6 tags.
C6_Bounded ==
    dpc = "done" =>
        \A f \in dprocessed : /\ Len(f.text) <= Len(dtext) + 10
                              /\ Len(f.tags) <= Len(dtext) + 6

\* C7. Termination: for every rule table of the six rule kinds and every
\* input the exploration is bounded, the frontier becomes empty and
\* deconjugate returns.  Stated for a budget of MaxRounds iterations, more
\* than the len(input) + 9 iterations any run needs in which every rule
\* application adds a tag or a character: after that many iterations the
\* frontier is empty.
C7_Terminates == (dpc = "loop" /\ round >= MaxRounds) => novel = {}

-----------------------------------------------------------------------------
(* Priority score properties, under PrioSpec *)

Score(pr) == GetPriorityScore(pr, parts_of_speech, is_kana)

\* the last ingestion appended a token of the claim's list
AppendedKnown ==
    /\ priorities # prev_priorities
    /\ priorities[Len(priorities)] \in KnownTokens

HasSpec(pr) == AnyIn(pr, {Tok_spec1, Tok_spec2})

-----------------------------------------------------------------------------
(* Width folding properties, under WidthSpec *)

AsciiAlnum == (48..57) \cup (65..90) \cup (97..122)

FullwidthAlnum == (65296..65305) \cup (65313..65338) \cup (65345..65370)

AllIn(s, S) == \A i \in 1..Len(s) : s[i] \in S

\* C9. Width folding round trip: halfwidth(fullwidth(s)) = s for every
\* string of ASCII letters and digits, fullwidth(halfwidth(s)) = s for
\* every string of fullwidth letters and digits, and each function keeps
\* the length and every character outside the class it converts.
C9_RoundTrip ==
    /\ (Len(fops) >= 2 /\ fops[1] = "full" /\ fops[2] = "half" /\ AllIn(fhist[1], AsciiAlnum))
           => fhist[3] = fhist[1]
    /\ (Len(fops) >= 2 /\ fops[1] = "half" /\ fops[2] = "full" /\ AllIn(fhist[1], FullwidthAlnum))
           => fhist[3] = fhist[1]
    /\ \A k \in 1..Len(fops) :
           /\ Len(fhist[k + 1]) = Len(fhist[k])
           /\ \A i \in 1..Len(fhist[k]) :
                  fhist[k][i] \notin (IF fops[k] = "full" THEN AsciiAlnum ELSE FullwidthAlnum)
                      => fhist[k + 1][i] = fhist[k][i]

\* a two-character string holding a lower-case letter and a digit, folded
\* to fullwidth (which changed it) and back
C9_Witness ==
    /\ fops = <<"full", "half">>
    /\ Len(fhist[1]) = 2
    /\ fhist[1][1] \in 97..122
    /\ fhist[1][2] \in 48..57
    /\ fhist[2] # fhist[1]
    /\ fhist[3] = fhist[1]

-----------------------------------------------------------------------------
(* Kana folding properties, under KanaSpec *)

\* C10. Kana folding idempotence: applying to_hiragana_preserve_long to its
\* own result changes nothing, also for strings with the small wa
\* characters.
C10_Idempotent == Len(fops) >= 2 => fhist[3] = fhist[2]

\* a string with a small katakana wa and a katakana letter, folded twice
C10_Witness ==
    /\ fops = <<"hira", "hira">>
    /\ \E i \in 1..Len(fhist[1]) : fhist[1][i] = KATAKANA_SMALL_WA
    /\ \E i \in 1..Len(fhist[1]) : fhist[1][i] = 12459
    /\ fhist[2] # fhist[1]

\* the forms one rule application away from a non-skipped form of S
Derived(S) ==
    UNION {ApplyRule(g, rules[k]) : g \in {h \in S : ~Skip(h)}, k \in 1..Len(rules)}

\* S is the initial form of t together with exactly what rule applications
\* to its non-skipped members yield
IsBfsResult(S, t) == S = {InitialForm(t)} \cup Derived(S)

\* C17. BFS result: for every input text, deconjugate returns the initial
\* form together with every form obtainable by applying a rule to a
\* non-skipped form of the result, and nothing else; every frontier, skipped
\* forms included, is merged into the result, and no form is expanded
\* twice (the frontier never holds a form already processed).
C17_BfsResult ==
    /\ dpc = "done" => IsBfsResult(dprocessed, dtext)
    /\ novel \cap dprocessed = {}

\* C17, amended: as C17 for every non-empty input text; for the empty
\* text deconjugate returns the empty set, without the initial form.
C17_BfsResultNonEmpty ==
    /\ dpc = "done" =>
           IF dtext = <<>> THEN dprocessed = {} ELSE IsBfsResult(dprocessed, dtext)
    /\ novel \cap dprocessed = {}

\* a returned set with derived forms, one of them skipped rather than
\* expanded
C17_Witness ==
    /\ dpc = "done"
    /\ dtext # <<>>
    /\ \E f \in dprocessed : Skip(f)
    /\ \E f \in dprocessed : f # InitialForm(dtext) /\ ~Skip(f)

\* a tag nfNN: nf followed by exactly two digits
IsNfNN(p) == Len(p) = 4 /\ SubSeq(p, 1, 2) = Tok_nf /\ IsDigit(SubSeq(p, 3, 4))

\* the contribution table of the priority score, read row by row
TableSum(pr, pos, kana) ==
    LET Has(S) == \E i \in 1..Len(pr) : pr[i] \in S
        HasPrefix(q) == \E i \in 1..Len(pr) : Len(pr[i]) >= Len(q) /\ SubSeq(pr[i], 1, Len(q)) = q
        nfs == {i \in 1..Len(pr) : IsNfNN(pr[i])}
        nf == IF nfs = {} THEN 0
              ELSE LET i == CHOOSE j \in nfs : \A k \in nfs : j <= k
                       N == DigitValue(pr[i][3]) * 10 + DigitValue(pr[i][4])
                   IN  Max(0, 5 - RoundTenth(N))
        running == (IF Has({Tok_jiten}) THEN 100 ELSE 0)
                   + (IF Has({Tok_ichi1, Tok_ichi}) THEN 20
                      ELSE IF Has({Tok_ichi2}) THEN 10 ELSE 0)
                   + (IF HasPrefix(Tok_news1) THEN 15 ELSE 0)
                   + (IF HasPrefix(Tok_news2) THEN 10 ELSE 0)
                   + (IF Has({Tok_gai1, Tok_gai2}) THEN 5 ELSE 0)
                   + nf
        spec == IF running # 0 THEN 0
                ELSE IF Has({Tok_spec1}) THEN 15
                ELSE IF Has({Tok_spec2}) THEN 5 ELSE 0
        uk == IF \E i \in 1..Len(pos) : pos[i] = <<"u", "k">>
              THEN (IF kana THEN 10 ELSE -10) ELSE 0
    IN  running + spec + uk

\* C18. Priority score: for every priority list, POS list and isKana,
\* get_priority_score equals the table sum, in which an nf tag counts only
\* when it is the first tag nfNN with a two-digit numeric suffix.
C18_TableSum == Score(priorities) = TableSum(priorities, parts_of_speech, is_kana)

\* the forms about to be expanded (every form the deconjugator holds is in
\* exactly one frontier) and the rules of one kind
HeldForms == novel

RulesOfType(type) == {rules[k] : k \in {j \in 1..Len(rules) : rules[j].type = type}}

\* position i (from 1) of a parallel list: a list of length 1 is repeated,
\* a position past the end falls back to the first element, an absent tag
\* list gives no tag
Broadcast(lst, i) ==
    IF lst = <<>> THEN None
    ELSE IF i <= Len(lst) THEN lst[i] ELSE lst[1]

\* what the standard rule is to yield for a form
StdRuleYield(form, rule) ==
    IF rule.detail = "" /\ form.tags = <<>> THEN {}
    ELSE LET n == Len(form.text)
             Ok(i) ==
                 LET con == Broadcast(rule.con_end, i)
                 IN  /\ Len(con) <= n
                     /\ SubSeq(form.text, n - Len(con) + 1, n) = con
                     /\ (form.tags = <<>>
                            \/ form.tags[Len(form.tags)] = Broadcast(rule.con_tag, i))
                     /\ SubSeq(form.text, 1, n - Len(con)) \o rule.dec_end[i]
                            # form.original_text
             New(i) ==
                 LET con == Broadcast(rule.con_end, i)
                 IN  CreateNewForm(form,
                                   SubSeq(form.text, 1, n - Len(con)) \o rule.dec_end[i],
                                   Broadcast(rule.con_tag, i), Broadcast(rule.dec_tag, i),
                                   rule.detail)
         IN  {New(i) : i \in {j \in 1..Len(rule.dec_end) : Ok(j)}}

\* C19. Standard rule application: nothing when the detail is empty and the
\* form has no tags; otherwise, for each index i of decEnd (a list of
\* length 1 repeated, positions past a list's end falling back to index 0),
\* a form iff the text ends with conEnd[i], the form has no tags or its
\* last tag is conTag[i], and the rewritten text differs from the original
\* text; the new text is the text without the conEnd[i] suffix followed by
\* decEnd[i].
C19_StdRule ==
    \A form \in HeldForms : \A rule \in RulesOfType("stdrule") :
        StdRule(form, rule) = StdRuleYield(form, rule)

\* the rule with lists of different lengths applied, at its third index, to
\* a form with tags, with the fallback to the first dec_tag
C19_Witness ==
    \E form \in HeldForms : \E rule \in RulesOfType("stdrule") :
        /\ rule.detail = "multi"
        /\ form.tags # <<>>
        /\ \E g \in StdRule(form, rule) :
               /\ g.text = SubSeq(form.text, 1, Len(form.text) - 1) \o rule.dec_end[3]
               /\ g.tags = Append(form.tags, rule.dec_tag[1])

\* the text, with con_end[0] stripped from the right, ends in the literal
EndsInSaContext(form, rule) ==
    /\ rule.con_end # <<>>
    /\ EndsWith(form.text, rule.con_end[1])
    /\ EndsWith(SubSeq(form.text, 1, Len(form.text) - Len(rule.con_end[1])),
                SaContextLiteral)

\* C20. Context rules: a v1inftrap rule yields nothing when the form's tags
\* equal ("stem-ren",); a saspecial rule yields nothing when the form's
\* text, with conEnd[0] stripped from the right, ends at that boundary in
\* the context literal of the sa check; in every other case a context rule
\* yields exactly what the standard rule yields for the same form.
C20_ContextRule ==
    \A form \in HeldForms : \A rule \in RulesOfType("contextrule") :
        ContextRule(form, rule) =
            IF rule.context_rule = "v1inftrap" /\ form.tags = <<"stem-ren">> THEN {}
            ELSE IF rule.context_rule = "saspecial" /\ EndsInSaContext(form, rule) THEN {}
            ELSE StdRule(form, rule)

\* C16. POS decoder coverage: every value of PartOfSpeech is the decoding of
\* some string by to_part_of_speech and every value of PartOfSpeechSection
\* the decoding of some string by to_pos_section; a string outside the
\* tables (for to_part_of_speech: not named by a test and not starting
\* with v) decodes to Unknown / None_.
C16_DecoderCoverage ==
    /\ \A v \in PartOfSpeech : \E s \in PosInputs : ToPartOfSpeech(s) = v
    /\ \A u \in PartOfSpeechSection : \E s \in PosInputs : ToPosSection(s) = u
    /\ (pos_fn = "to_part_of_speech" /\ pos_in \notin ToPartOfSpeechStrings
            /\ ~StartsWith(pos_in, <<"v">>)) => pos_out = "Unknown"
    /\ (pos_fn = "to_pos_section" /\ pos_in \notin ToPosSectionStrings)
           => pos_out = "None_"

\* position of a word id in the insertion order of words
RECURSIVE IndexOf(_, _)
IndexOf(ids, word_id) ==
    IF ids = <<>> THEN 0
    ELSE IF ids[Len(ids)] = word_id /\ ~\E i \in 1..(Len(ids) - 1) : ids[i] = word_id
         THEN Len(ids)
         ELSE IndexOf(SubSeq(ids, 1, Len(ids) - 1), word_id)

\* C14. Lexicon index well-formedness: while the lookup table is built and
\* when load_jmdict returns, for every key the list lookups[key] holds no
\* word id twice, every id in it is a key of words, and the ids stand in
\* the order in which the words were first seen (the insertion order of
\* words).
C14_IndexWellFormed ==
    \A key \in DOMAIN lookups :
        LET arr == lookups[key]
        IN  /\ \A i, j \in 1..Len(arr) : i # j => arr[i] # arr[j]
            /\ \A i \in 1..Len(arr) : arr[i] \in DOMAIN jm_words
            /\ \A i, j \in 1..Len(arr) :
                   i < j => IndexOf(jm_ids, arr[i]) < IndexOf(jm_ids, arr[j])

\* load_jmdict has returned, a key is shared by two words, and one of them
\* added it both as a spelling and as a reading
C14_Witness ==
    /\ lpc = "done"
    /\ \E key \in DOMAIN lookups :
           /\ Len(lookups[key]) >= 2
           /\ \E i \in 1..Len(lookups[key]) :
                  LET w == jm_words[lookups[key][i]]
                  IN  /\ key \in w.spellings
                      /\ key \in w.readings
                      /\ ToHiraganaPreserveLong(key) = key

\* C11. Anchor retry cap: _process_word calls try_process at most
\* MAX_DECONJ_ATTEMPTS = 3 times, once per counted attempt; as long as it
\* has not returned, fewer than 3 attempts have been made, so that the
\* iteration which makes the third attempt returns (an anchor or None)
\* whatever fallback still applies.
C11_RetryCap ==
    /\ tries <= MAX_DECONJ_ATTEMPTS
    /\ tries = attempts
    /\ apc = "loop" => attempts < MAX_DECONJ_ATTEMPTS
    /\ apc = "returned" => attempts >= 1

\* the third attempt failed and a fallback was still applicable: None is
\* returned all the same
C11_Witness ==
    /\ apc = "returned"
    /\ attempts = MAX_DECONJ_ATTEMPTS
    /\ ret = NoAnchor
    /\ fallback # "none"

\* C12. Every DeckWord returned by _process_word(w) has original_text equal
\* to the surface of w before any fallback, whichever attempt anchored it.
C12_OriginalText ==
    (apc = "returned" /\ ret # NoAnchor) => ret.original_text = w_in.text

\* an anchor found on a text the fallbacks had changed
C12_Witness ==
    /\ apc = "returned"
    /\ ret # NoAnchor
    /\ attempts >= 2
    /\ cur_w.text # w_in.text

\* C13. Reading-index validity: the reading_index of every DeckWord returned
\* is an index into the readings of the lexicon word with its word_id,
\* 0 <= reading_index < number of readings, the default index 0 included.
C13_ReadingIndexValid ==
    ret # NoAnchor =>
        /\ ret.word_id \in DOMAIN jm_words
        /\ ret.reading_index >= 0
        /\ ret.reading_index < Cardinality(jm_words[ret.word_id].readings)

\* an anchor on a key that no reading of the word resolves: the index is
\* the default 0
C13_Witness ==
    /\ apc = "returned"
    /\ ret # NoAnchor
    /\ ret.reading_index = 0
    /\ ret.word_id \in Range(LookupsGet(lookups, ToHiraganaExpandLong(cur_w.text)))
    /\ \A o \in Orders(jm_words[ret.word_id].readings) :
           ComputeReadingIndex(o, ToHiraganaExpandLong(cur_w.text)) = NoIndex

\* C15. Determinism: two runs of _process_word on the same morpheme, with
\* the same rule table and the same lexicon, return the same value.
C15_Deterministic == (run = 2 /\ apc = "returned") => ret = first_ret

\* the detail labels of the substitution rules of the table
SubstDetails == {rules[k].detail : k \in {j \in 1..Len(rules) : rules[j].type = "substitution"}}

\* what a substitution rule is to yield for a form
SubstYield(form, rule) ==
    IF form.process # <<>> \/ form.text = <<>> THEN {}
    ELSE {Form(Replace(form.text, Broadcast(rule.con_end, i), rule.dec_end[i]),
               form.original_text, form.tags,
               (IF form.seen_text = {} THEN {form.text} ELSE form.seen_text)
                   \cup {Replace(form.text, Broadcast(rule.con_end, i), rule.dec_end[i])},
               Append(form.process, rule.detail))
          : i \in {j \in 1..Len(rule.dec_end) :
                       Contains(form.text, Broadcast(rule.con_end, j))}}

\* C21. Substitution rule: it yields nothing for a form whose process trace
\* is not empty or whose text is empty; otherwise, for each index i whose
\* conEnd[i] occurs in the text, one form with every occurrence replaced by
\* decEnd[i] and the tags of the source form.  So in the process trace of
\* any form a substitution step stands at the first position only.
C21_Substitution ==
    \A form \in HeldForms :
        /\ \A rule \in RulesOfType("substitution") :
               Substitution(form, rule) = SubstYield(form, rule)
        /\ \A k \in 2..Len(form.process) : form.process[k] \notin SubstDetails

\* a form derived in two steps, the first of them a substitution that
\* replaced both occurrences, while a substitution rule is in the table
C21_Witness ==
    \E form \in HeldForms :
        /\ Len(form.process) = 2
        /\ form.process[1] = "sub"
        /\ form.original_text = <<"a", "a">>
        /\ \E g \in dprocessed : g.process = <<"sub">> /\ g.text = <<"b", "b">>
        /\ RulesOfType("substitution") # {}

\* the tags _create_new_form is to give: the parent's tags, conTag appended
\* iff the parent had none and conTag is set, then decTag appended iff set
NewTags(tags, con_tag, dec_tag) ==
    (tags \o (IF tags = <<>> /\ con_tag # None THEN <<con_tag>> ELSE <<>>))
        \o (IF dec_tag # None THEN <<dec_tag>> ELSE <<>>)

\* C22. Form construction: every form a rule other than a substitution
\* derives from a held form keeps original_text equal to the input of
\* deconjugate; its tags are the parent's tags with conTag appended iff the
\* parent had no tags and conTag is set, then decTag appended iff set; its
\* process is the parent's process plus the rule's detail; its seen set is
\* the parent's seen set plus the new text, plus the parent's text when
\* the parent's seen set was empty; and every held form other than the
\* initial one has the original text and its own text in its seen set.
C22_FormConstruction ==
    \A form \in HeldForms :
        /\ form.original_text = dtext
        /\ form # InitialForm(dtext) => {dtext, form.text} \subseteq form.seen_text
        /\ \A k \in 1..Len(rules) :
               rules[k].type # "substitution" =>
                   \A g \in ApplyRule(form, rules[k]) :
                       /\ g.original_text = dtext
                       /\ \E i \in 1..Len(rules[k].dec_end) :
                              g.tags = NewTags(form.tags, Broadcast(rules[k].con_tag, i),
                                               Broadcast(rules[k].dec_tag, i))
                       /\ g.process = Append(form.process, rules[k].detail)
                       /\ g.seen_text = (form.seen_text \cup {g.text})
                              \cup (IF form.seen_text = {} THEN {form.text} ELSE {})

\* a rule with a conTag applied to a form that has tags already (conTag is
\* not appended, decTag is), and a rule without decTag applied to the
\* initial form (conTag alone is appended)
C22_Witness ==
    /\ \E form \in HeldForms : \E k \in 1..Len(rules) : \E g \in ApplyRule(form, rules[k]) :
           /\ form.tags # <<>>
           /\ rules[k].con_tag # <<>>
           /\ rules[k].dec_tag # <<>>
           /\ Len(g.tags) = Len(form.tags) + 1
    /\ \E h \in HeldForms \cup dprocessed :
           /\ Len(h.process) = 1
           /\ Len(h.tags) = 1
           /\ h.process[1] = "grow"

\* the fallback the retry rules name for a text: 1 trim the last character,
\* 2 drop the honorific, 3 remove the long marks
RetryRule(t) ==
    LET n == Len(t)
    IN  IF n > 2 /\ (t[n] = SMALL_TSU \/ t[n] = LONG_VOWEL_MARK \/ t[n] = t[n - 1])
        THEN [kind |-> "trim-last", before |-> t, after |-> SubSeq(t, 1, n - 1)]
        ELSE IF n >= 1 /\ t[1] = HONORIFIC_O
        THEN [kind |-> "drop-honorific", before |-> t, after |-> SubSeq(t, 2, n)]
        ELSE IF \E i \in 1..n : t[i] = LONG_VOWEL_MARK
        THEN [kind |-> "remove-long-marks", before |-> t,
              after |-> SelectSeq(t, LAMBDA c : c # LONG_VOWEL_MARK)]
        ELSE [kind |-> "none", before |-> t, after |-> t]

\* C23. Retry fallbacks: every failed attempt is followed by exactly the
\* fallback the priority order names for the working text (trim the last
\* character, else drop the honorific, else remove the long marks), applied
\* to the text the attempt ran on; when none applies the loop stops with
\* no anchor; and over one run each of the three fallbacks is applied at
\* most once.
C23_RetryFallbacks ==
    /\ \A k \in 1..Len(applied) :
           /\ applied[k] = RetryRule(applied[k].before)
           /\ applied[k].before = IF k = 1 THEN w_in.text ELSE applied[k - 1].after
    /\ (apc = "returned" /\ ret = NoAnchor /\ attempts < MAX_DECONJ_ATTEMPTS)
           => RetryRule(cur_w.text).kind = "none"
    /\ \A j, k \in 1..Len(applied) : j # k => applied[j].kind # applied[k].kind

\* the first DeckWord of a list of strategy results, or NoAnchor
RECURSIVE FirstAnchor(_)
FirstAnchor(results) ==
    IF results = <<>> THEN NoAnchor
    ELSE IF Head(results) # NoAnchor THEN Head(results) ELSE FirstAnchor(Tail(results))

\* the strategies in the order the dispatch names for a morpheme
DispatchOrder(w, ro, fo) ==
    IF \/ w.part_of_speech \in {"Verb", "IAdjective", "Auxiliary", "NaAdjective"}
       \/ w.pos1 = "Adjectival"
    THEN <<DeconjugateVerbOrAdjective(w, ro, fo), DeconjugateWord(w, ro)>>
    ELSE <<DeconjugateWord(w, ro),
           DeconjugateVerbOrAdjective([w EXCEPT !.part_of_speech = "Verb"], ro, fo),
           DeconjugateVerbOrAdjective([w EXCEPT !.part_of_speech = "IAdjective"], ro, fo),
           DeconjugateVerbOrAdjective([w EXCEPT !.part_of_speech = "NaAdjective"], ro, fo)>>

\* C24. Primary dispatch and POS restoration: the anchor returned for a
\* morpheme is the first one found by the strategies in dispatch order
\* (verb/adjective then noun for Verb, IAdjective, Auxiliary, NaAdjective or
\* pos1 Adjectival; otherwise noun, then verb/adjective under Verb,
\* IAdjective, NaAdjective in turn); after the attempt the morpheme has its
\* original POS; and the POS list of the anchor holds the morpheme's
\* original POS, also when it was anchored under an alternate POS.
C24_DispatchAndPos ==
    (apc = "returned" /\ ret # NoAnchor) =>
        /\ \E ro \in ReadingOrders(jm_ids), fo \in FormOrders(cur_w.text) :
               LET dw == FirstAnchor(DispatchOrder(cur_w, ro, fo))
               IN  /\ dw # NoAnchor
                   /\ ret.word_id = dw.word_id
                   /\ ret.reading_index = dw.reading_index
        /\ cur_w.part_of_speech = w_in.part_of_speech
        /\ ret.parts_of_speech = <<w_in.part_of_speech>>

-----------------------------------------------------------------------------
(* Noun strategy properties, under NounSpec *)

\* the deduplicated, sorted union of lookup(t) and
\* lookup(toHiraganaPreserveLong(t))
UnionCandidates(t) ==
    SortedIds(Range(LookupsGet(lookups, t))
                  \cup Range(LookupsGet(lookups, ToHiraganaPreserveLong(t))))

\* the word chosen among cands for a morpheme: of the candidates whose
\* decoded POS tags contain the morpheme's POS, the first of those of
\* maximal priority score; the first candidate when there is none
ChosenWord(cands, w) ==
    LET score(wid) == GetPriorityScore(jm_words[wid].priorities,
                                       jm_words[wid].parts_of_speech, IsKana(w.text))
        matching == {i \in 1..Len(cands) : w.part_of_speech \in PosOf(jm_words[cands[i]])}
        best == {i \in matching : \A j \in matching : score(cands[j]) <= score(cands[i])}
    IN  IF matching = {} THEN cands[1]
        ELSE cands[CHOOSE i \in best : \A j \in best : i <= j]

\* the result of the noun strategy as the selection rule gives it
NounSelection(w, ro) ==
    IF IsDigitText(w.text) \/ (Len(w.text) = 1 /\ IsAsciiOrFullwidthLetter(w.text))
    THEN NoAnchor
    ELSE IF UnionCandidates(w.text) = <<>> THEN NoAnchor
    ELSE LET jm == ChosenWord(UnionCandidates(w.text), w)
             idx == ComputeReadingIndex(ro[jm], w.text)
         IN  IF idx = NoIndex THEN NoAnchor
             ELSE DeckWord(jm, w.text, idx, <<w.part_of_speech>>)

\* C25. Noun strategy selection: the strategy rejects a text of digits or a
\* single ASCII/fullwidth letter; otherwise its candidates are the
\* deduplicated sorted union of lookup(text) and
\* lookup(toHiraganaPreserveLong(text)), the chosen word is the candidate
\* of maximal priority score among those with the morpheme's POS (the
\* first such in candidate order), or the first candidate when none has
\* it, and the strategy fails when the reading index is unresolved.
C25_NounSelection ==
    attempts >= 1 =>
        \A ro \in ReadingOrders(jm_ids) :
            DeconjugateWord(w_in, ro) = NounSelection(w_in, ro)

-----------------------------------------------------------------------------
(* Merge pipeline properties, under PipeSpec *)

\* the canonical order of the passes
CanonicalOrder ==
    <<"specialCases", "combinePrefixes", "combineAmounts", "combineTte",
      "combineAuxiliaryVerbStem", "combineAdverbialParticle", "combineSuffix",
      "combineAuxiliary", "combineVerbDependants", "combineVerbPossibleDependants",
      "combineVerbDependantsSuru", "combineVerbDependantsTeiru",
      "combineConjunctiveParticle", "combineParticles", "combineFinal",
      "separateSuffixHonorifics", "filterMisparse">>

\* C26. Pipeline order: apply_pipeline runs the 17 passes exactly once each
\* in the canonical order, each pass receiving the list the previous one
\* returned (the first the argument), and returns the result of the last;
\* with morphemes_only set no pass runs and the argument is returned with
\* its morphemes unchanged.
C26_PipelineOrder ==
    ppc # "idle" =>
        /\ morphemes_only =>
               /\ passes = <<>>
               /\ ppc = "returned" => pipe_ret = word_infos /\ heap = in_heap
        /\ ~morphemes_only =>
               /\ Len(passes) <= Len(CanonicalOrder)
               /\ \A k \in 1..Len(passes) :
                      /\ passes[k].name = CanonicalOrder[k]
                      /\ passes[k].arg = IF k = 1 THEN word_infos ELSE passes[k - 1].result
               /\ ppc = "returned" <=> Len(passes) = Len(CanonicalOrder)
               /\ ppc = "returned" => pipe_ret = passes[Len(passes)].result

\* a finished run of all the passes in which morphemes were merged
C26_Witness ==
    /\ ppc = "returned"
    /\ ~morphemes_only
    /\ Len(passes) = 17
    /\ Len(word_infos) = 3
    /\ Len(pipe_ret) = 1

\* the surfaces of the objects of a list
SurfacesOf(h, lst) == [i \in 1..Len(lst) |-> h[lst[i]].text]

\* a is b with some of its elements deleted
RECURSIVE IsSubsequence(_, _)
IsSubsequence(a, b) ==
    IF a = <<>> THEN TRUE
    ELSE IF b = <<>> THEN FALSE
    ELSE IF Head(a) = Head(b) THEN IsSubsequence(Tail(a), Tail(b))
    ELSE IsSubsequence(a, Tail(b))

\* C27. Surface preservation: each of the 16 passes before filterMisparse
\* returns a list whose surfaces concatenate to the same text as those of
\* the list it was given; filterMisparse returns the surfaces it was given
\* with some of them deleted whole.
C27_SurfacePreservation ==
    passes # <<>> =>
        LET last == passes[Len(passes)]
            given == SurfacesOf(in_heap, last.arg)
            returned == SurfacesOf(heap, last.result)
        IN  IF last.name = "filterMisparse"
            THEN IsSubsequence(returned, given)
            ELSE Join(returned) = Join(given)

\* a pass before filterMisparse has merged two morphemes into one
C27_Witness ==
    /\ passes # <<>>
    /\ passes[Len(passes)].name = "combineParticles"
    /\ Len(passes[Len(passes)].arg) = Len(passes[Len(passes)].result) + 1
    /\ Join(SurfacesOf(heap, pw)) = <<12391, 12399>>

\* C28. No aliasing through the merge chain: after any pass, every field
\* of every morpheme record of the list the pass was given is as it was
\* when the pass was called.
C28_NoAliasing ==
    passes # <<>> =>
        \A a \in Range(passes[Len(passes)].arg) : heap[a] = in_heap[a]

\* the honorific suffix to split off a morpheme: one of the three it ends
\* in and is strictly longer than, when it is a person's name or a proper
\* noun
HonorificOf(wi) ==
    IF HasSection(wi, "PersonName") \/ HasSection(wi, "ProperNoun")
    THEN {h \in {<<12373, 12435>>, <<12385, 12419, 12435>>, <<12367, 12435>>} : EndsWith(wi.text, h) /\ Len(wi.text) > Len(h)}
    ELSE {}

\* returned, from j on, is given, from i on, with every morpheme that has
\* an honorific suffix replaced by the name and a Suffix morpheme
RECURSIVE HonorificsSeparated(_, _, _, _)
HonorificsSeparated(given, i, returned, j) ==
    IF i > Len(given) THEN j = Len(returned) + 1
    ELSE IF HonorificOf(given[i]) # {}
    THEN LET h == CHOOSE x \in HonorificOf(given[i]) : TRUE
         IN  /\ j + 1 <= Len(returned)
             /\ returned[j].text = SubSeq(given[i].text, 1, Len(given[i].text) - Len(h))
             /\ returned[j].part_of_speech = given[i].part_of_speech
             /\ returned[j + 1].text = h
             /\ returned[j + 1].part_of_speech = "Suffix"
             /\ HonorificsSeparated(given, i + 1, returned, j + 2)
    ELSE /\ j <= Len(returned)
         /\ returned[j] = given[i]
         /\ HonorificsSeparated(given, i + 1, returned, j + 1)

\* C29. separateSuffixHonorifics: for every list it is given, a list of a
\* single morpheme included, every morpheme with the PersonName or
\* ProperNoun section that ends in さん, ちゃん or くん and is strictly
\* longer than that suffix is replaced by the name without the suffix and
\* a Suffix morpheme whose text is the suffix, and every other morpheme is
\* passed through unchanged.
C29_SeparateSuffixHonorifics ==
    (passes # <<>> /\ passes[Len(passes)].name = "separateSuffixHonorifics") =>
        HonorificsSeparated(Values(in_heap, passes[Len(passes)].arg), 1,
                            Values(heap, passes[Len(passes)].result), 1)

\* returned, from j on, is given, from i on, rewritten: a special3 match
\* at i gives one morpheme, else a special2 match gives one morpheme, else
\* the する-て-くださる lookahead or the handling of the single morpheme
\* at i keeps its surface
RECURSIVE NGramsRewritten(_, _, _, _)
NGramsRewritten(given, i, returned, j) ==
    IF i > Len(given) THEN j = Len(returned) + 1
    ELSE LET m3 == IF i + 2 <= Len(given)
                   THEN {e \in special3 : /\ given[i].text = e[1]
                                          /\ given[i + 1].text = e[2]
                                          /\ given[i + 2].text = e[3]}
                   ELSE {}
             m2 == IF i + 1 <= Len(given)
                   THEN {e \in special2 : given[i].text = e[1] /\ given[i + 1].text = e[2]}
                   ELSE {}
         IN  IF m3 # {}
             THEN /\ j <= Len(returned)
                  /\ returned[j].text
                         = given[i].text \o given[i + 1].text \o given[i + 2].text
                  /\ \E e \in m3 : returned[j].part_of_speech = e[4]
                  /\ NGramsRewritten(given, i + 3, returned, j + 1)
             ELSE IF m2 # {}
             THEN /\ j <= Len(returned)
                  /\ returned[j].text = given[i].text \o given[i + 1].text
                  /\ \E e \in m2 : returned[j].part_of_speech = e[3]
                  /\ NGramsRewritten(given, i + 2, returned, j + 1)
             ELSE IF /\ i + 2 <= Len(given)
                     /\ given[i].dictionary_form = <<12377, 12427>>
                     /\ given[i + 1].text = <<12390>>
                     /\ given[i + 2].dictionary_form = <<12367, 12384, 12373, 12427>>
             THEN /\ j <= Len(returned)
                  /\ returned[j].text
                         = given[i].text \o given[i + 1].text \o given[i + 2].text
                  /\ NGramsRewritten(given, i + 3, returned, j + 1)
             ELSE \E n \in 1..2 :
                      /\ j + n - 1 <= Len(returned)
                      /\ Join([k \in 1..n |-> returned[j + k - 1].text]) = given[i].text
                      /\ NGramsRewritten(given, i + 1, returned, j + n)

\* C30. specialCases n-gram rewrite: scanning left to right, at every
\* position not consumed by an earlier rewrite, three morphemes whose
\* surfaces are an entry of special3 are replaced by one with the
\* concatenated surface and the entry's POS, else two morphemes whose
\* surfaces are an entry of special2 likewise, whatever the POS of the
\* first morpheme; the handling of single morphemes applies only where no
\* n-gram matched.
C30_NGramRewrite ==
    (passes # <<>> /\ passes[Len(passes)].name = "specialCases") =>
        NGramsRewritten(Values(in_heap, passes[Len(passes)].arg), 1,
                        Values(heap, passes[Len(passes)].result), 1)

=============================================================================
